---- MODULE Spec2Model ----
(***************************************************************************)
(* Model of the speech side of the im-not-a-reader browser extension:      *)
(*   src/src/background/speech-controller.js  (SpeechController)           *)
(*   src/src/lib/models/AudioSession.js       (AudioSession)               *)
(* together with the Web Speech engine the controller drives               *)
(* (speechSynthesis: speak / pause / resume / cancel / getVoices and the   *)
(* four utterance callbacks).                                              *)
(*                                                                         *)
(* JavaScript scheduling is modelled as it is: a call runs to its first    *)
(* await; the continuation of an await on an already settled promise is a  *)
(* microtask; engine events, timers and voiceschanged are tasks and run    *)
(* only when no microtask is ready.  Numbers with one decimal (speed,      *)
(* volume) are kept in tenths: 1.0 is 10, 0.5 is 5, 2.0 is 20.             *)
(***************************************************************************)
EXTENDS Integers, Sequences, FiniteSets, TLC

\* ------------------------------------------------------------------------
\* Bounds of the model
\* ------------------------------------------------------------------------
MaxSessions == 2      \* AudioSession objects created in one behaviour
MaxUtterances == 2    \* utterance objects alive at the same time
MaxCalls == 1         \* async controller calls suspended at the same time

\* ------------------------------------------------------------------------
\* JavaScript values
\* ------------------------------------------------------------------------
Null == 0                 \* null, for a reference to a session or an utterance
Undefined == "undefined"  \* undefined, for a string-valued field
Absent == <<>>            \* an optional number is <<>> (undefined) or <<n>>
Num(n) == <<n>>
\* x || d for an optional number x: undefined and 0 are falsy
OrDefault(x, d) == IF x = Absent \/ x = Num(0) THEN d ELSE x[1]
\* A text is a sequence of one-character strings; the empty sequence stands
\* for both '' and a missing text, which the code does not tell apart (!text).

Min(a, b) == IF a < b THEN a ELSE b
Max(a, b) == IF a > b THEN a ELSE b

IsSpace(c) == c = " "
IsWordChar(c) == c \in {"a", "b", "c", "d"}

\* String.prototype.split(/\s+/): the pieces between whitespace runs, an
\* empty piece before a leading run and after a trailing run included.
RECURSIVE SplitFrom(_, _, _, _)
SplitFrom(s, i, cur, inWs) ==
  IF i > Len(s) THEN <<cur>>
  ELSE IF IsSpace(s[i])
       THEN IF inWs THEN SplitFrom(s, i + 1, cur, TRUE)
            ELSE <<cur>> \o SplitFrom(s, i + 1, <<>>, TRUE)
       ELSE SplitFrom(s, i + 1, Append(cur, s[i]), FALSE)
SplitWhitespace(s) == SplitFrom(s, 1, <<>>, FALSE)

\* String.prototype.trim()
RECURSIVE TrimLeft(_)
TrimLeft(s) == IF s # <<>> /\ IsSpace(Head(s)) THEN TrimLeft(Tail(s)) ELSE s
RECURSIVE TrimRight(_)
TrimRight(s) ==
  IF s # <<>> /\ IsSpace(s[Len(s)]) THEN TrimRight(SubSeq(s, 1, Len(s) - 1)) ELSE s
Trim(s) == TrimRight(TrimLeft(s))

\* word.replace(/[^\w\s]/g, '')
StripPunctuation(w) == SelectSeq(w, LAMBDA c : IsWordChar(c) \/ IsSpace(c))

\* Array.prototype.join(' ')
RECURSIVE JoinSpace(_)
JoinSpace(ws) ==
  IF ws = <<>> THEN <<>>
  ELSE IF Len(ws) = 1 THEN ws[1]
  ELSE ws[1] \o <<" ">> \o JoinSpace(Tail(ws))

\* String.prototype.substring(0, n)
Substring0(s, n) == SubSeq(s, 1, Max(0, Min(n, Len(s))))

NonEmpty(w) == Len(w) > 0

\* ------------------------------------------------------------------------
\* State
\* ------------------------------------------------------------------------
VARIABLES
  sessions,          \* the AudioSession objects ever created; sessionId = index
  activeSessions,    \* SpeechController.activeSessions: the ids in the Map
  currentUtterance,  \* SpeechController.currentUtterance: utterance id or Null
  currentSessionId,  \* SpeechController.currentSessionId: session id or Null
  utterances,        \* the SpeechSynthesisUtterance objects still referenced
  synth,             \* speechSynthesis: queue of submitted utterances, paused
                     \* flag, cancelled utterances whose events are in flight
  voices,            \* speechSynthesis.getVoices()
  onvoiceschanged,   \* speechSynthesis.onvoiceschanged: the waiting call or Null
  speechSupported,   \* result of _isSpeechSupported() in this environment
  calls,             \* async controller calls suspended at an await
  now,               \* Date.now() and new Date(), counted in units of 12 hours
  page,              \* the content script's side: the document or the article
                     \* handed to the ClickHandler, and what the handler made of it
  last               \* the observer's record of the last step and its outcome

vars == << sessions, activeSessions, currentUtterance, currentSessionId, utterances,
           synth, voices, onvoiceschanged, speechSupported, calls, now, page, last >>

\* ------------------------------------------------------------------------
\* AudioSession (src/src/lib/models/AudioSession.js)
\* ------------------------------------------------------------------------

\* AudioSession._extractWords
ExtractWords(text) ==
  IF text = <<>> THEN <<>>
  ELSE LET split    == SplitWhitespace(text)
           pieces   == SelectSeq([i \in DOMAIN split |-> Trim(split[i])], NonEmpty)
           stripped == [i \in DOMAIN pieces |-> StripPunctuation(pieces[i])]
       IN  SelectSeq(stripped, NonEmpty)

\* A clamp without the upper end
ClampPositionBelowOnly(position, totalWords) == Max(0, position)

\* Math.max(0, Math.min(position, totalWords - 1)), the clamp of the
\* constructor and of updateState
ClampPosition(position, totalWords) == Max(0, Min(position, totalWords - 1))

\* AudioSession._validateSpeed / _validateVolume: TRUE when the value is kept
ValidSpeed(speed) == ~(speed < 5 \/ speed > 20)
ValidVolume(volume) == ~(volume < 0 \/ volume > 10)

\* new AudioSession({...}) throws on these
ConstructorThrows(contentId, pageUrl, text, tabId, speed, volume) ==
  \/ contentId = Undefined
  \/ pageUrl = Undefined
  \/ text = <<>>
  \/ tabId = Undefined
  \/ ~ValidSpeed(speed)
  \/ ~ValidVolume(volume)

\* new AudioSession({...})
NewAudioSession(sessionId, contentId, pageUrl, text, startWordIndex, speed, volume, tabId) ==
  LET words == ExtractWords(text)
  IN  [ sessionId       |-> sessionId,
        contentId       |-> contentId,
        pageUrl         |-> pageUrl,
        tabId           |-> tabId,
        text            |-> text,
        words           |-> words,
        totalWords      |-> Len(words),
        currentPosition |-> ClampPosition(startWordIndex, Len(words)),
        isPlaying       |-> FALSE,
        isPaused        |-> FALSE,
        speed           |-> speed,
        volume          |-> volume,
        createdAt       |-> now,
        lastActiveAt    |-> now ]

\* AudioSession.updateState(patch): a field that the argument does not have
\* (undefined after destructuring) is left alone.  The callers pass speed
\* and volume already range-checked, so _validateSpeed/_validateVolume keep
\* the value.
Has(patch, field) == field \in DOMAIN patch

\* An updateState that writes every field, so that a field missing from the
\* argument falls back to its default
UpdateStateResetting(s, patch) ==
  [ s EXCEPT
      !.isPlaying       = IF Has(patch, "isPlaying") THEN patch.isPlaying ELSE @,
      !.isPaused        = IF Has(patch, "isPaused") THEN patch.isPaused ELSE @,
      !.currentPosition = IF Has(patch, "currentPosition")
                          THEN ClampPosition(patch.currentPosition, s.totalWords) ELSE @,
      !.speed           = IF Has(patch, "speed") THEN patch.speed ELSE 10,
      !.volume          = IF Has(patch, "volume") THEN patch.volume ELSE 10,
      !.lastActiveAt    = now ]

\* An updateState that leaves the timestamp alone
UpdateStateUntimed(s, patch) ==
  [ s EXCEPT
      !.isPlaying       = IF Has(patch, "isPlaying") THEN patch.isPlaying ELSE @,
      !.isPaused        = IF Has(patch, "isPaused") THEN patch.isPaused ELSE @,
      !.currentPosition = IF Has(patch, "currentPosition")
                          THEN ClampPosition(patch.currentPosition, s.totalWords) ELSE @,
      !.speed           = IF Has(patch, "speed") THEN patch.speed ELSE @,
      !.volume          = IF Has(patch, "volume") THEN patch.volume ELSE @ ]

\* AudioSession.updateState
UpdateState(s, patch) ==
  [ s EXCEPT
      !.isPlaying       = IF Has(patch, "isPlaying") THEN patch.isPlaying ELSE @,
      !.isPaused        = IF Has(patch, "isPaused") THEN patch.isPaused ELSE @,
      !.currentPosition = IF Has(patch, "currentPosition")
                          THEN ClampPosition(patch.currentPosition, s.totalWords) ELSE @,
      !.speed           = IF Has(patch, "speed") THEN patch.speed ELSE @,
      !.volume          = IF Has(patch, "volume") THEN patch.volume ELSE @,
      !.lastActiveAt    = now ]

\* AudioSession.getRemainingText
GetRemainingText(s) ==
  IF s.currentPosition >= Len(s.words) THEN <<>>
  ELSE JoinSpace(SubSeq(s.words, s.currentPosition + 1, Len(s.words)))

\* AudioSession.toJSON: the text and the words are not among the fields
ToJSON(s) ==
  [ sessionId |-> s.sessionId, contentId |-> s.contentId, pageUrl |-> s.pageUrl,
    tabId |-> s.tabId, currentPosition |-> s.currentPosition,
    totalWords |-> s.totalWords, isPlaying |-> s.isPlaying, isPaused |-> s.isPaused,
    speed |-> s.speed, volume |-> s.volume,
    createdAt |-> s.createdAt, lastActiveAt |-> s.lastActiveAt ]

\* AudioSession.fromJSON: `data.text || ''`, `data.currentPosition || 0`,
\* `data.speed || 1.0` and `data.volume || 1.0` go to the constructor, which
\* throws or builds the session whose state is then restored
FromJSON(data) ==
  LET text   == IF Has(data, "text") THEN data.text ELSE << >>
      speed  == IF data.speed = 0 THEN 10 ELSE data.speed
      volume == IF data.volume = 0 THEN 10 ELSE data.volume
  IN  IF ConstructorThrows(data.contentId, data.pageUrl, text, data.tabId, speed, volume)
      THEN [threw |-> "Error"]
      ELSE [ threw |-> "none",
             session |->
               [ NewAudioSession(data.sessionId, data.contentId, data.pageUrl, text,
                                 data.currentPosition, speed, volume, data.tabId)
                   EXCEPT !.isPlaying = data.isPlaying, !.isPaused = data.isPaused,
                          !.createdAt = data.createdAt,
                          !.lastActiveAt = data.lastActiveAt ] ]

\* AudioSession.isComplete
IsComplete(s) == s.currentPosition >= s.totalWords

\* A word index counted from the start of the utterance, not added to the
\* session's position
CalculateWordIndexAbsolute(charIndex, s) ==
  LET textUpToChar    == Substring0(GetRemainingText(s), charIndex)
      wordsBeforeChar == Len(SplitWhitespace(textUpToChar)) - 1
  IN  Max(0, wordsBeforeChar)

\* SpeechController._calculateWordIndex
CalculateWordIndex(charIndex, s) ==
  LET textUpToChar    == Substring0(GetRemainingText(s), charIndex)
      wordsBeforeChar == Len(SplitWhitespace(textUpToChar)) - 1
  IN  s.currentPosition + Max(0, wordsBeforeChar)

\* ------------------------------------------------------------------------
\* Inputs
\* ------------------------------------------------------------------------
TextABC == <<"a", " ", "b", ",", " ", " ", "c">>     \* "a b,  c": 3 words
TextAB == <<"a", ".", " ", "b">>                      \* "a. b": 2 words
TextPunct == <<".", ".">>                             \* "..": no word
TextSpaces == <<" ", " ">>                            \* "  ": only whitespace

NullRequest == [null |-> TRUE]                        \* startSpeech(null)
BaseRequest ==
  [ contentId |-> "content-1", pageUrl |-> Undefined, text |-> TextABC, tabId |-> "tab-1",
    startWordIndex |-> Absent, speed |-> Absent, volume |-> Absent ]

Requests ==
  { [BaseRequest EXCEPT !.text = TextAB],
    [BaseRequest EXCEPT !.text = TextPunct],
    [BaseRequest EXCEPT !.contentId = Undefined] }

SpeedInputs == {10, 25}        \* 1.0 (valid), 2.5 (out of range)
VolumeInputs == {10, 11}       \* 1.0 (valid), 1.1 (out of range)
MaxCharIndex == 3              \* event.charIndex ranges over -1 .. MaxCharIndex
CharIndices == -1 .. MaxCharIndex
BoundaryNames == {"word", "sentence"}

\* speechSynthesis.getVoices() once the voice list has loaded
LoadedVoices ==
  << [name |-> "remote-en", localService |-> FALSE, lang |-> <<"en", "US">>],
     [name |-> "local-fr",  localService |-> TRUE,  lang |-> <<"fr", "FR">>],
     [name |-> "local-en",  localService |-> TRUE,  lang |-> <<"en", "GB">>] >>

maxConcurrentSessions == 10

\* The observer records the operation or event of every step and how it
\* ended.  A specification that does not watch outcomes starts with
\* last = Unobserved and stays there.
Unobserved == [op |-> "none", result |-> "none"]
Outcome(op, result) == IF last = Unobserved THEN Unobserved ELSE [op |-> op, result |-> result]

\* new SpeechController(), in an environment with or without the speech API,
\* whose voice list has loaded or not
InitController(observed) ==
  /\ sessions = <<>>
  /\ activeSessions = {}
  /\ currentUtterance = Null
  /\ currentSessionId = Null
  /\ utterances = <<>>
  /\ synth = [queue |-> <<>>, paused |-> FALSE, cancelled |-> {}]
  /\ voices \in {<<>>, LoadedVoices}
  /\ onvoiceschanged = Null
  /\ speechSupported \in BOOLEAN
  /\ calls = <<>>
  /\ now = 0
  /\ last = IF observed THEN [op |-> "constructor", result |-> "ok"] ELSE Unobserved

\* The background page alone: no content script is attached
NoPage == [attached |-> FALSE]
InitFor(observed) == InitController(observed) /\ page = NoPage

\* The controller and engine state as one value w, so that the statements of
\* a handler can be applied one after the other.
World ==
  [ sessions |-> sessions, activeSessions |-> activeSessions,
    currentUtterance |-> currentUtterance, currentSessionId |-> currentSessionId,
    utterances |-> utterances, synth |-> synth ]

SeqToSet(q) == {q[i] : i \in DOMAIN q}

\* Utterance objects that something still refers to: the engine (queued, or
\* cancelled with events in flight) or the controller (currentUtterance).
Referenced(w) ==
  (SeqToSet(w.synth.queue) \cup w.synth.cancelled \cup {w.currentUtterance}) \ {Null}

\* A session object that nothing refers to any more (it is not in the Map, no
\* utterance handler closes over it, no suspended call holds it) is garbage.
Collected == [collected |-> TRUE]
Alive(ss, sid) == sid \in DOMAIN ss /\ ss[sid] # Collected
Reachable(w, sid) ==
  \/ sid \in w.activeSessions
  \/ \E u \in Referenced(w) : w.utterances[u].session = sid
  \/ \E c \in DOMAIN calls : calls[c].sid = sid

Commit(w) ==
  /\ sessions' = [sid \in DOMAIN w.sessions |->
                    IF Reachable(w, sid) THEN w.sessions[sid] ELSE Collected]
  /\ activeSessions' = w.activeSessions
  /\ currentUtterance' = w.currentUtterance
  /\ currentSessionId' = w.currentSessionId
  /\ utterances' = [u \in Referenced(w) |-> w.utterances[u]]
  /\ synth' = w.synth

\* speechSynthesis.speaking / speechSynthesis.paused
Speaking(w) == w.synth.queue # <<>>
Paused(w) == w.synth.paused

\* An utterance is live from speak() until it ends, fails or is cancelled.
LiveUtterances(w) == SeqToSet(w.synth.queue)

\* A pause() that toggles the engine's paused flag
SynthPauseToggling(w) == [w EXCEPT !.synth.paused = ~@]

\* speechSynthesis.pause() / resume()
SynthPause(w) == [w EXCEPT !.synth.paused = TRUE]
SynthResume(w) == [w EXCEPT !.synth.paused = FALSE]

\* speechSynthesis.cancel(): the queue is emptied; the removed utterances
\* may still deliver events (end or error for the one being spoken, error
\* for those that were waiting).
SynthCancel(w) ==
  [w EXCEPT
     !.synth.queue = <<>>,
     !.synth.cancelled = @ \cup SeqToSet(w.synth.queue)]

\* session.updateState(...) on the session object sid
UpdateSession(w, sid, patch) == [w EXCEPT !.sessions[sid] = UpdateState(@, patch)]


\* ------------------------------------------------------------------------
\* SpeechController: private helpers
\* ------------------------------------------------------------------------
NoVoice == [name |-> "null"]

\* SpeechController._getBestVoice, the part after the voice list is read:
\* a local voice, one whose language starts with "en" first; else any voice.
GetBestVoice(availableVoices) ==
  LET localVoices == SelectSeq(availableVoices, LAMBDA v : v.localService)
      matches     == SelectSeq(localVoices, LAMBDA v : v.lang[1] = "en")
  IN  IF Len(localVoices) > 0
      THEN IF matches # <<>> THEN matches[1] ELSE localVoices[1]
      ELSE IF Len(availableVoices) > 0 THEN availableVoices[1] ELSE NoVoice

\* The id of a new utterance object: the first one nothing refers to.
FreshUtterance(w) ==
  CHOOSE u \in 1 .. (Cardinality(Referenced(w)) + 1) : u \notin Referenced(w)

\* _startSpeechSynthesis throws 'No text to speak'
SynthesisThrows(w, sid) == GetRemainingText(w.sessions[sid]) = <<>>

\* A submission that leaves the utterance at the engine's default volume
StartSpeechSynthesisDefaultVolume(w, sid, voice, caller) ==
  LET session == w.sessions[sid]
      u       == FreshUtterance(w)
      prev    == w.currentUtterance
      taken   == w.currentSessionId \notin {Null, sid} /\ prev \in LiveUtterances(w)
      utterance ==
        [ text |-> GetRemainingText(session), voice |-> voice,
          rate |-> session.speed, volume |-> 10, pitch |-> 10,
          session |-> sid,         \* the session the four handlers close over
          submittedBy |-> caller,  \* the operation that submitted it
          started |-> FALSE,       \* the engine has fired onstart
          superseded |-> FALSE ]   \* another session took the focus while it was live
  IN  [w EXCEPT
        !.utterances = [x \in (DOMAIN w.utterances) \cup {u} |->
                          IF x = u THEN utterance
                          ELSE IF x = prev /\ taken
                               THEN [w.utterances[x] EXCEPT !.superseded = TRUE]
                               ELSE w.utterances[x]],
        !.currentUtterance = u,
        !.currentSessionId = sid,
        !.synth.queue = Append(@, u)]

\* _startSpeechSynthesis, when it does not throw: build the utterance from
\* the remaining text, make it the current one, speak() it.
StartSpeechSynthesis(w, sid, voice, caller) ==
  LET session == w.sessions[sid]
      u       == FreshUtterance(w)
      prev    == w.currentUtterance
      taken   == w.currentSessionId \notin {Null, sid} /\ prev \in LiveUtterances(w)
      utterance ==
        [ text |-> GetRemainingText(session), voice |-> voice,
          rate |-> session.speed, volume |-> session.volume, pitch |-> 10,
          session |-> sid,         \* the session the four handlers close over
          submittedBy |-> caller,  \* the operation that submitted it
          started |-> FALSE,       \* the engine has fired onstart
          superseded |-> FALSE ]   \* another session took the focus while it was live
  IN  [w EXCEPT
        !.utterances = [x \in (DOMAIN w.utterances) \cup {u} |->
                          IF x = u THEN utterance
                          ELSE IF x = prev /\ taken
                               THEN [w.utterances[x] EXCEPT !.superseded = TRUE]
                               ELSE w.utterances[x]],
        !.currentUtterance = u,
        !.currentSessionId = sid,
        !.synth.queue = Append(@, u)]

\* An onstart handler that rewinds the session to its first word
OnStartRewinding(w, u) ==
  UpdateSession(w, w.utterances[u].session,
                [isPlaying |-> TRUE, isPaused |-> FALSE, currentPosition |-> 0])

\* utterance.onstart
OnStart(w, u) ==
  UpdateSession(w, w.utterances[u].session, [isPlaying |-> TRUE, isPaused |-> FALSE])

\* An onend handler that does not release the engine focus
OnEndKeepingFocus(w, u) ==
  LET sid == w.utterances[u].session
  IN  UpdateSession(w, sid, [isPlaying |-> FALSE, isPaused |-> FALSE,
                             currentPosition |-> w.sessions[sid].totalWords])

\* utterance.onend
OnEnd(w, u) ==
  LET sid == w.utterances[u].session
      w1  == UpdateSession(w, sid, [isPlaying |-> FALSE, isPaused |-> FALSE,
                                    currentPosition |-> w.sessions[sid].totalWords])
  IN  IF w1.currentSessionId = sid
      THEN [w1 EXCEPT !.currentUtterance = Null, !.currentSessionId = Null]
      ELSE w1

\* An onerror handler that destroys the session
OnErrorDestroying(w, u) ==
  [w EXCEPT !.activeSessions = @ \ {w.utterances[u].session}]

\* utterance.onerror
OnError(w, u) ==
  UpdateSession(w, w.utterances[u].session, [isPlaying |-> FALSE, isPaused |-> FALSE])

\* _broadcastError(error, sessionId): the messages handed to
\* chrome.tabs.sendMessage
BroadcastError(w, sessionId) ==
  IF sessionId \in w.activeSessions
  THEN << [type |-> "SESSION_ERROR", sessionId |-> sessionId] >>
  ELSE << >>

\* utterance.onboundary
OnBoundary(w, u, name, charIndex) ==
  LET sid == w.utterances[u].session
  IN  IF name = "word"
      THEN UpdateSession(w, sid,
             [currentPosition |-> CalculateWordIndex(charIndex, w.sessions[sid])])
      ELSE w

\* A limit check that lets the registry grow one beyond the limit
SessionLimitReachedAbove(size) == size > maxConcurrentSessions

\* startSpeech's session limit check
SessionLimitReached(size) == size >= maxConcurrentSessions

\* _validateStartRequest: the message of the Error it throws, or "none"
ValidateStartRequest(request) ==
  IF request = NullRequest THEN "Request is required"
  ELSE IF request.contentId = Undefined THEN "contentId is required"
  ELSE IF request.text = <<>> THEN "text is required"
  ELSE IF request.tabId = Undefined THEN "tabId is required"
  ELSE "none"

\* ------------------------------------------------------------------------
\* Scheduling
\* ------------------------------------------------------------------------
\* A call suspended with pc "voiceWait" waits for a timer or voiceschanged;
\* with any other pc its continuation is a ready microtask.
NoMicrotask == \A c \in DOMAIN calls : calls[c].pc = "voiceWait"

FreshCall == CHOOSE c \in 1 .. (Cardinality(DOMAIN calls) + 1) : c \notin DOMAIN calls

\* The call suspends at `await this._getBestVoice()`.  _getBestVoice has
\* read the voice list: with no voice it waits (onvoiceschanged = resolve,
\* setTimeout(resolve, 500)), else it returns and the caller's continuation
\* is a microtask.
Suspend(call) ==
  LET c == FreshCall
  IN  /\ calls' = [x \in (DOMAIN calls) \cup {c} |->
                     IF x = c THEN [call EXCEPT !.pc = IF Len(voices) = 0 THEN "voiceWait" ELSE "voice"]
                     ELSE calls[x]]
      /\ onvoiceschanged' = IF Len(voices) = 0 THEN c ELSE onvoiceschanged
      /\ last' = Outcome(call.op, "pending")

Settle(c) == calls' = [x \in (DOMAIN calls) \ {c} |-> calls[x]]

Returns(op) == last' = Outcome(op, "ok")
Throws(op, error) == last' = Outcome(op, error)

ControllerUnchanged ==
  UNCHANGED << sessions, activeSessions, currentUtterance, currentSessionId,
               utterances, synth >>
EnvUnchanged == UNCHANGED << voices, onvoiceschanged, speechSupported, now, page >>

\* ------------------------------------------------------------------------
\* SpeechController: public operations
\* ------------------------------------------------------------------------

\* startSpeech(request), up to `await this._getBestVoice()`
StartSpeech(request) ==
  LET invalid == ValidateStartRequest(request)
  IN  IF invalid # "none" THEN
        /\ Throws("startSpeech", "Error")
        /\ ControllerUnchanged /\ EnvUnchanged /\ UNCHANGED calls
      ELSE IF ~speechSupported THEN
        /\ Throws("startSpeech", "SpeechNotSupportedError")
        /\ ControllerUnchanged /\ EnvUnchanged /\ UNCHANGED calls
      ELSE IF SessionLimitReached(Cardinality(activeSessions)) THEN
        /\ Throws("startSpeech", "SessionLimitError")
        /\ ControllerUnchanged /\ EnvUnchanged /\ UNCHANGED calls
      ELSE
        /\ Suspend([op |-> "startSpeech", pc |-> "voice", request |-> request,
                    sid |-> Null, threw |-> FALSE])
        /\ ControllerUnchanged /\ UNCHANGED << voices, speechSupported, now, page >>

\* startSpeech, from the voice check to `await this._startSpeechSynthesis()`
StartSpeechAfterVoice(c) ==
  LET request == calls[c].request
      voice   == GetBestVoice(voices)
      sid     == Len(sessions) + 1
      speed   == OrDefault(request.speed, 10)
      volume  == OrDefault(request.volume, 10)
      pageUrl == IF request.pageUrl = Undefined THEN "unknown" ELSE request.pageUrl
      session == NewAudioSession(sid, request.contentId, pageUrl, request.text,
                                 OrDefault(request.startWordIndex, 0), speed, volume,
                                 request.tabId)
      w1      == [World EXCEPT !.sessions = Append(@, session),
                               !.activeSessions = @ \cup {sid}]
  IN  /\ c \in DOMAIN calls
      /\ calls[c].op = "startSpeech" /\ calls[c].pc = "voice"
      /\ EnvUnchanged
      /\ IF voice = NoVoice THEN
           /\ Throws("startSpeech", "VoiceNotAvailableError")
           /\ Settle(c) /\ ControllerUnchanged
         ELSE IF Len(Trim(request.text)) = 0 THEN
           /\ Throws("startSpeech", "TextProcessingError")
           /\ Settle(c) /\ ControllerUnchanged
         ELSE IF ConstructorThrows(request.contentId, pageUrl, request.text,
                                   request.tabId, speed, volume) THEN
           /\ Throws("startSpeech", "TextProcessingError")
           /\ Settle(c) /\ ControllerUnchanged
         ELSE IF SynthesisThrows(w1, sid) THEN
           /\ Commit(w1)
           /\ calls' = [calls EXCEPT ![c].pc = "synth", ![c].sid = sid, ![c].threw = TRUE]
           /\ last' = Outcome("startSpeech", "pending")
         ELSE
           /\ Commit(StartSpeechSynthesis(w1, sid, voice, "startSpeech"))
           /\ calls' = [calls EXCEPT ![c].pc = "synth", ![c].sid = sid]
           /\ last' = Outcome("startSpeech", "pending")

\* startSpeech, after `await this._startSpeechSynthesis()`
StartSpeechAfterSynthesis(c) ==
  /\ c \in DOMAIN calls
  /\ calls[c].op = "startSpeech" /\ calls[c].pc = "synth"
  /\ EnvUnchanged /\ Settle(c)
  /\ IF calls[c].threw THEN
       /\ Throws("startSpeech", "TextProcessingError")
       /\ ControllerUnchanged
     ELSE
       /\ Commit(UpdateSession(World, calls[c].sid, [isPlaying |-> TRUE, isPaused |-> FALSE]))
       /\ Returns("startSpeech")

\* A pauseSpeech that writes isPaused only
PauseSpeechEffectPausedOnly(w, sid) ==
  LET w1 == IF w.currentSessionId = sid /\ Speaking(w) THEN SynthPause(w) ELSE w
  IN  UpdateSession(w1, sid, [isPaused |-> TRUE])

\* pauseSpeech(sessionId), past _getSession: what it does to the state w
PauseSpeechEffect(w, sid) ==
  LET w1 == IF w.currentSessionId = sid /\ Speaking(w) THEN SynthPause(w) ELSE w
  IN  UpdateSession(w1, sid, [isPlaying |-> FALSE, isPaused |-> TRUE])

\* pauseSpeech(sessionId)
PauseSpeech(sid) ==
  /\ EnvUnchanged /\ UNCHANGED calls
  /\ IF sid \notin activeSessions THEN
       /\ Throws("pauseSpeech", "SessionNotFoundError")
       /\ ControllerUnchanged
     ELSE
       /\ Commit(PauseSpeechEffect(World, sid))
       /\ Returns("pauseSpeech")

\* A state check that lets every session resume
NotPausedNever(s) == FALSE

\* resumeSpeech's state check: `!session.isPaused`
NotPaused(s) == ~s.isPaused

\* resumeSpeech(sessionId), up to `await this._getBestVoice()`
ResumeSpeech(sid) ==
  IF sid \notin activeSessions THEN
    /\ Throws("resumeSpeech", "SessionNotFoundError")
    /\ ControllerUnchanged /\ EnvUnchanged /\ UNCHANGED calls
  ELSE IF NotPaused(sessions[sid]) THEN
    /\ Throws("resumeSpeech", "Error")
    /\ ControllerUnchanged /\ EnvUnchanged /\ UNCHANGED calls
  ELSE IF currentSessionId = sid /\ Paused(World) THEN
    /\ Commit(UpdateSession(SynthResume(World), sid, [isPlaying |-> TRUE, isPaused |-> FALSE]))
    /\ Returns("resumeSpeech")
    /\ EnvUnchanged /\ UNCHANGED calls
  ELSE
    /\ Suspend([op |-> "resumeSpeech", pc |-> "voice", request |-> NullRequest,
                sid |-> sid, threw |-> FALSE])
    /\ ControllerUnchanged /\ UNCHANGED << voices, speechSupported, now, page >>

\* resumeSpeech and setSpeed, from the end of the voice lookup to
\* `await this._startSpeechSynthesis(session, voice)`; the voice is not
\* checked here.
RestartAfterVoice(c, op) ==
  /\ c \in DOMAIN calls
  /\ calls[c].op = op /\ calls[c].pc = "voice"
  /\ EnvUnchanged
  /\ last' = Outcome(op, "pending")
  /\ IF SynthesisThrows(World, calls[c].sid) THEN
       /\ calls' = [calls EXCEPT ![c].pc = "synth", ![c].threw = TRUE]
       /\ ControllerUnchanged
     ELSE
       /\ Commit(StartSpeechSynthesis(World, calls[c].sid, GetBestVoice(voices), op))
       /\ calls' = [calls EXCEPT ![c].pc = "synth"]

ResumeSpeechAfterVoice(c) == RestartAfterVoice(c, "resumeSpeech")

\* resumeSpeech, after `await this._startSpeechSynthesis()`
ResumeSpeechAfterSynthesis(c) ==
  /\ c \in DOMAIN calls
  /\ calls[c].op = "resumeSpeech" /\ calls[c].pc = "synth"
  /\ EnvUnchanged /\ Settle(c)
  /\ IF calls[c].threw THEN
       /\ Throws("resumeSpeech", "TextProcessingError")
       /\ ControllerUnchanged
     ELSE
       /\ Commit(UpdateSession(World, calls[c].sid, [isPlaying |-> TRUE, isPaused |-> FALSE]))
       /\ Returns("resumeSpeech")

\* A stopSpeech that leaves the session in the registry
StopSpeechEffectKeeping(w, sid) ==
  IF w.currentSessionId = sid
  THEN [SynthCancel(w) EXCEPT !.currentUtterance = Null, !.currentSessionId = Null]
  ELSE w

\* stopSpeech(sessionId), past _getSession: what it does to the state w
StopSpeechEffect(w, sid) ==
  LET w1 == IF w.currentSessionId = sid
            THEN [SynthCancel(w) EXCEPT
                    !.currentUtterance = Null, !.currentSessionId = Null]
            ELSE w
  IN  [w1 EXCEPT !.activeSessions = @ \ {sid}]

\* stopSpeech(sessionId)
StopSpeech(sid) ==
  /\ EnvUnchanged /\ UNCHANGED calls
  /\ IF sid \notin activeSessions THEN
       /\ Throws("stopSpeech", "SessionNotFoundError")
       /\ ControllerUnchanged
     ELSE
       /\ Commit(StopSpeechEffect(World, sid))
       /\ Returns("stopSpeech")

\* A range check that rejects nothing
SpeedOutOfRangeNever(speed) == FALSE

\* setSpeed's and setVolume's range checks
SpeedOutOfRange(speed) == speed < 5 \/ speed > 20
VolumeOutOfRange(volume) == volume < 0 \/ volume > 10

\* setSpeed(sessionId, speed), up to `await this._getBestVoice()`
SetSpeed(sid, speed) ==
  IF sid \notin activeSessions THEN
    /\ Throws("setSpeed", "SessionNotFoundError")
    /\ ControllerUnchanged /\ EnvUnchanged /\ UNCHANGED calls
  ELSE IF SpeedOutOfRange(speed) THEN
    /\ Throws("setSpeed", "Error")
    /\ ControllerUnchanged /\ EnvUnchanged /\ UNCHANGED calls
  ELSE
    LET w1 == UpdateSession(World, sid, [speed |-> speed])
        isCurrent == currentSessionId = sid /\ currentUtterance # Null
        w2 == IF isCurrent
              THEN [w1 EXCEPT !.utterances[currentUtterance].rate = speed] ELSE w1
        restart == isCurrent /\ Speaking(w2) /\ ~Paused(w2)
        wasPlaying == w2.sessions[sid].isPlaying
        w3 == IF restart THEN SynthCancel(w2) ELSE w2
    IN  /\ Commit(w3)
        /\ IF restart /\ wasPlaying THEN
             /\ Suspend([op |-> "setSpeed", pc |-> "voice", request |-> NullRequest,
                         sid |-> sid, threw |-> FALSE])
             /\ UNCHANGED << voices, speechSupported, now, page >>
           ELSE
             /\ Returns("setSpeed")
             /\ EnvUnchanged /\ UNCHANGED calls

SetSpeedAfterVoice(c) == RestartAfterVoice(c, "setSpeed")

\* setSpeed, after `await this._startSpeechSynthesis()`
SetSpeedAfterSynthesis(c) ==
  /\ c \in DOMAIN calls
  /\ calls[c].op = "setSpeed" /\ calls[c].pc = "synth"
  /\ EnvUnchanged /\ Settle(c) /\ ControllerUnchanged
  /\ IF calls[c].threw
     THEN Throws("setSpeed", "TextProcessingError")
     ELSE Returns("setSpeed")

\* setVolume(sessionId, volume)
SetVolume(sid, volume) ==
  /\ EnvUnchanged /\ UNCHANGED calls
  /\ IF sid \notin activeSessions THEN
       /\ Throws("setVolume", "SessionNotFoundError")
       /\ ControllerUnchanged
     ELSE IF VolumeOutOfRange(volume) THEN
       /\ Throws("setVolume", "Error")
       /\ ControllerUnchanged
     ELSE
       LET w1 == UpdateSession(World, sid, [volume |-> volume])
           w2 == IF currentSessionId = sid /\ currentUtterance # Null
                 THEN [w1 EXCEPT !.utterances[currentUtterance].volume = volume] ELSE w1
       IN  /\ Commit(w2)
           /\ Returns("setVolume")

\* 24 * 60 * 60 * 1000 ms, in units of 12 hours
maxInactiveTime == 2

\* A sweep that also removes a session idle for exactly the limit
ExpiredAtLimit(s) == now - s.lastActiveAt >= maxInactiveTime

\* cleanupInactiveSessions: inactiveTime > maxInactiveTime
Expired(s) == now - s.lastActiveAt > maxInactiveTime

\* cleanupInactiveSessions(): no await, so the call runs to its return
CleanupInactiveSessions ==
  LET expired == {sid \in activeSessions : Expired(sessions[sid])}
  IN  /\ Commit([World EXCEPT !.activeSessions = @ \ expired])
      /\ last' = IF last = Unobserved THEN Unobserved
                 ELSE [op |-> "cleanupInactiveSessions", result |-> "ok",
                       count |-> Cardinality(expired)]
      /\ EnvUnchanged /\ UNCHANGED calls

\* ------------------------------------------------------------------------
\* The environment: timers, the voice list, the engine's events (tasks)
\* ------------------------------------------------------------------------

\* One timer for all waiters: only the wait stored last can time out
VoiceTimeoutOfLastWaiter(c) ==
  /\ NoMicrotask
  /\ c \in DOMAIN calls /\ calls[c].pc = "voiceWait" /\ onvoiceschanged = c
  /\ calls' = [calls EXCEPT ![c].pc = "voice"]
  /\ onvoiceschanged' = Null
  /\ last' = Outcome("timeout", "ok")
  /\ ControllerUnchanged /\ UNCHANGED << voices, speechSupported, now, page >>

\* setTimeout(resolve, 500) of a voice wait fires
VoiceTimeout(c) ==
  /\ NoMicrotask
  /\ c \in DOMAIN calls /\ calls[c].pc = "voiceWait"
  /\ calls' = [calls EXCEPT ![c].pc = "voice"]
  /\ onvoiceschanged' = IF onvoiceschanged = c THEN Null ELSE onvoiceschanged
  /\ last' = Outcome("timeout", "ok")
  /\ ControllerUnchanged /\ UNCHANGED << voices, speechSupported, now, page >>

\* The engine's voice list loads and voiceschanged fires: the resolve
\* function stored last in onvoiceschanged is called.
VoicesChanged ==
  /\ NoMicrotask
  /\ Len(voices) = 0
  /\ voices' = LoadedVoices
  /\ calls' = [c \in DOMAIN calls |->
                 IF c = onvoiceschanged THEN [calls[c] EXCEPT !.pc = "voice"] ELSE calls[c]]
  /\ onvoiceschanged' = Null
  /\ last' = Outcome("voiceschanged", "ok")
  /\ ControllerUnchanged /\ UNCHANGED << speechSupported, now, page >>

\* The utterance the engine is speaking: the head of the queue.
IsSpoken(u) == synth.queue # <<>> /\ u = Head(synth.queue)
IsStale(u) == u \in synth.cancelled

\* The observer's record of an engine event: whether the utterance had been
\* cancelled, and whether its session held the engine focus.
Event(name, u) ==
  last' = IF last = Unobserved THEN Unobserved
          ELSE [op |-> name, result |-> "ok", stale |-> IsStale(u),
                focus |-> (currentSessionId = utterances[u].session)]

\* The engine starts to speak the head of the queue: onstart
EngineStart(u) ==
  /\ NoMicrotask
  /\ IsSpoken(u) /\ ~synth.paused /\ ~utterances[u].started
  /\ Commit(OnStart([World EXCEPT !.utterances[u].started = TRUE], u))
  /\ Event("onstart", u)
  /\ EnvUnchanged /\ UNCHANGED calls

\* A boundary event of the spoken utterance, or one of a cancelled
\* utterance that was still in flight: onboundary
EngineBoundary(u, name, charIndex) ==
  /\ NoMicrotask
  /\ u \in DOMAIN utterances /\ utterances[u].started
  /\ (IsSpoken(u) /\ ~synth.paused) \/ IsStale(u)
  /\ Commit(OnBoundary(World, u, name, charIndex))
  /\ Event("onboundary", u)
  /\ EnvUnchanged /\ UNCHANGED calls

\* The engine is done with the utterance u and forgets it.
Forget(w, u) ==
  [w EXCEPT !.synth.queue = SelectSeq(@, LAMBDA x : x # u),
            !.synth.cancelled = @ \ {u}]

\* The spoken utterance ends, or the end event of an utterance that was
\* cancelled after it had started arrives: onend
EngineEnd(u) ==
  /\ NoMicrotask
  /\ u \in DOMAIN utterances
  /\ \/ IsSpoken(u) /\ ~synth.paused /\ utterances[u].started
     \/ IsStale(u) /\ utterances[u].started
  /\ Commit(OnEnd(Forget(World, u), u))
  /\ Event("onend", u)
  /\ EnvUnchanged /\ UNCHANGED calls

\* The spoken utterance fails, or the error event of a cancelled utterance
\* arrives: onerror
EngineError(u) ==
  /\ NoMicrotask
  /\ u \in DOMAIN utterances
  /\ IsSpoken(u) \/ IsStale(u)
  /\ Commit(OnError(Forget(World, u), u))
  /\ last' = IF last = Unobserved THEN Unobserved
             ELSE [op |-> "onerror", result |-> "ok", stale |-> IsStale(u),
                   focus |-> (currentSessionId = utterances[u].session),
                   session |-> utterances[u].session,
                   sent |-> BroadcastError(World, utterances[u].session)]
  /\ EnvUnchanged /\ UNCHANGED calls

\* The clock advances by one unit between two tasks, when no continuation
\* is ready to run
Tick ==
  /\ NoMicrotask
  /\ now' = now + 1
  /\ last' = Outcome("tick", "ok")
  /\ ControllerUnchanged
  /\ UNCHANGED << voices, onvoiceschanged, speechSupported, calls, page >>

\* ------------------------------------------------------------------------
\* ClickHandler (src/unnamed/part_000)
\* ------------------------------------------------------------------------

\* A string that is null or '' fails every `!text` test alike
NoText == << >>

\* /[.!?]+/g
IsTerminator(c) == c \in {".", "!", "?"}

\* The end of the match of /[.!?]+/ that starts at index i (indices from 0)
RECURSIVE MatchEnd(_, _)
MatchEnd(text, i) ==
  IF i < Len(text) /\ IsTerminator(text[i + 1]) THEN MatchEnd(text, i + 1) ELSE i

\* A span that is emitted also when its trimmed text is empty
SentenceOfKeepingEmpty(text, from, to) ==
  << [text |-> Trim(SubSeq(text, from + 1, to)), start |-> from, end |-> to] >>

\* A span whose text is not trimmed
SentenceOfUntrimmed(text, from, to) ==
  LET sentenceText == SubSeq(text, from + 1, to)
  IN  IF Len(Trim(sentenceText)) > 0
      THEN << [text |-> sentenceText, start |-> from, end |-> to] >>
      ELSE << >>

\* text.substring(from, to).trim() as a sentence, unless it is empty
SentenceOf(text, from, to) ==
  LET sentenceText == Trim(SubSeq(text, from + 1, to))
  IN  IF Len(sentenceText) > 0
      THEN << [text |-> sentenceText, start |-> from, end |-> to] >>
      ELSE << >>

\* ClickHandler.splitIntoSentences: the loop over the matches from index i,
\* then the text that remains after the last match
RECURSIVE SentencesFrom(_, _, _)
SentencesFrom(text, lastEnd, i) ==
  IF i >= Len(text) THEN
    IF lastEnd < Len(text) THEN SentenceOf(text, lastEnd, Len(text)) ELSE << >>
  ELSE IF IsTerminator(text[i + 1]) THEN
    LET end == MatchEnd(text, i)
    IN  SentenceOf(text, lastEnd, end) \o SentencesFrom(text, end, end)
  ELSE SentencesFrom(text, lastEnd, i + 1)

\* ClickHandler.splitIntoSentences
SplitIntoSentences(text) == IF text = NoText THEN << >> ELSE SentencesFrom(text, 0, 0)

\* String.prototype.includes
Includes(text, part) ==
  \E i \in 0 .. (Len(text) - Len(part)) : SubSeq(text, i + 1, i + Len(part)) = part

\* extractTextFromClick: the test of the matching loop
SentenceMatches(sentence, clickedText) ==
  \/ Trim(sentence.text) = Trim(clickedText)
  \/ Includes(sentence.text, Trim(clickedText))
  \/ Includes(Trim(clickedText), Trim(sentence.text))

\* A matching loop that ends on the last sentence when none matches
StartSentenceIndexOrLast(allSentences, clickedText) ==
  LET matching == {i \in 0 .. (Len(allSentences) - 1) :
                     SentenceMatches(allSentences[i + 1], clickedText)}
  IN  IF matching = {} THEN Len(allSentences) - 1
      ELSE CHOOSE i \in matching : \A j \in matching : i <= j

\* extractTextFromClick: the matching loop; startSentenceIndex stays 0
\* when no sentence matches
StartSentenceIndex(allSentences, clickedText) ==
  LET matching == {i \in 0 .. (Len(allSentences) - 1) :
                     SentenceMatches(allSentences[i + 1], clickedText)}
  IN  IF matching = {} THEN 0
      ELSE CHOOSE i \in matching : \A j \in matching : i <= j

\* allSentences.slice(startSentenceIndex).map(s => s.text), skipping the
\* sentence at the start index
TextsAfter(allSentences, startSentenceIndex) ==
  [k \in 1 .. Max(0, Len(allSentences) - startSentenceIndex - 1) |->
     allSentences[startSentenceIndex + k + 1].text]

\* allSentences.slice(startSentenceIndex).map(s => s.text)
TextsFrom(allSentences, startSentenceIndex) ==
  [k \in 1 .. Max(0, Len(allSentences) - startSentenceIndex) |->
     allSentences[startSentenceIndex + k].text]

\* this.currentReadingInfo before the first click
NoReadingInfo == [unset |-> TRUE]

\* ClickHandler.setupFullArticleReading
SetupFullArticleReading(fullArticleText, info) ==
  IF fullArticleText = NoText THEN [returned |-> NoText, info |-> info]
  ELSE [ returned |-> fullArticleText,
         info |-> [ startSentenceIndex |-> 0,
                    sentences |-> SplitIntoSentences(fullArticleText),
                    fullArticleText |-> fullArticleText ] ]

\* ClickHandler.extractTextFromClick, given what extractArticleText yielded
\* (NoText when it threw), what getClickedSentenceText found (NoText for
\* null) and what extractTextFromElement(event.target) would return
ResolveClick(fullArticleText, clickedText, elementText, info) ==
  IF clickedText = NoText THEN SetupFullArticleReading(fullArticleText, info)
  ELSE IF fullArticleText = NoText THEN [returned |-> elementText, info |-> info]
  ELSE
    LET allSentences == SplitIntoSentences(fullArticleText)
        startSentenceIndex == StartSentenceIndex(allSentences, clickedText)
    IN  [ returned |-> JoinSpace(TextsFrom(allSentences, startSentenceIndex)),
          info |-> [ startSentenceIndex |-> startSentenceIndex,
                     sentences |-> allSentences,
                     fullArticleText |-> fullArticleText ] ]

\* One click on the page: handleClick's call of extractTextFromClick
ExtractTextFromClick ==
  /\ page.attached /\ ~page.resolved
  /\ LET r == ResolveClick(page.fullArticleText, page.clickedText, page.elementText,
                           page.currentReadingInfo)
     IN  page' = [page EXCEPT !.resolved = TRUE, !.returned = r.returned,
                              !.currentReadingInfo = r.info]
  /\ last' = Outcome("extractTextFromClick", "ok")
  /\ ControllerUnchanged
  /\ UNCHANGED << voices, onvoiceschanged, speechSupported, calls, now >>

\* The reading side of the ClickHandler.  The page has its own speech engine:
\* page.queue holds the utterances given to speak(), the head being the one
\* spoken; page.cancelled holds the utterance that a cancel() cut off and
\* whose last event is still in flight.  page.listeners counts the click
\* listeners registered on the document.

\* Utterance objects of the page that something still refers to
PageReferenced(p) == (SeqToSet(p.queue) \cup p.cancelled \cup {p.currentSpeech}) \ {Null}

\* speechSynthesis.cancel() in the page
PageCancel(p) ==
  [p EXCEPT !.queue = << >>,
            !.cancelled = @ \cup (IF p.queue = << >> THEN {} ELSE {Head(p.queue)})]

\* ClickHandler.stopReading
StopReading(p) ==
  IF p.currentSpeech # Null THEN [PageCancel(p) EXCEPT !.currentSpeech = Null] ELSE p

\* ClickHandler.startReading(text)
StartReading(p) ==
  LET p1 == StopReading(p)
      u  == CHOOSE x \in 1 .. (Cardinality(PageReferenced(p1)) + 1) :
              x \notin PageReferenced(p1)
  IN  [p1 EXCEPT !.currentSpeech = u, !.queue = Append(@, u), !.readings = @ + 1]

\* ClickHandler.handleClick for a click on article text: the awaits of
\* extractTextFromClick settle in microtasks, so the handler has run to its
\* end before the next listener or any engine event runs
HandleClick(p) == IF ~p.isActive THEN p ELSE StartReading(p)

\* The click event goes to every registered listener
RECURSIVE DispatchClick(_, _)
DispatchClick(p, listeners) ==
  IF listeners = 0 THEN p ELSE DispatchClick(HandleClick(p), listeners - 1)

\* The steps of the page leave the background's controller alone
PageStep(op, result) ==
  /\ last' = Outcome(op, result)
  /\ ControllerUnchanged
  /\ UNCHANGED << voices, onvoiceschanged, speechSupported, calls, now >>

\* ClickHandler.activate
Activate ==
  /\ page.attached /\ Has(page, "listeners")
  /\ page' = IF page.isActive THEN page
             ELSE [page EXCEPT !.isActive = TRUE, !.listeners = @ + 1]
  /\ PageStep("activate", "ok")

\* ClickHandler.deactivate: removeEventListener gets a new bound function,
\* which is not a registered listener; an utterance has no cancel(), so with
\* a current utterance the call throws before it clears the field
Deactivate ==
  /\ page.attached /\ Has(page, "listeners")
  /\ page' = [page EXCEPT !.isActive = FALSE]
  /\ PageStep("deactivate", IF page.currentSpeech # Null THEN "TypeError" ELSE "ok")

\* One user click on article text; page.readings counts the readings that
\* this click starts
Click ==
  /\ page.attached /\ Has(page, "listeners")
  /\ page' = DispatchClick([page EXCEPT !.readings = 0], page.listeners)
  /\ PageStep("click", "ok")

\* The sr-stop event: the listener calls ClickHandler.stopReading
StopCommand ==
  /\ page.attached /\ Has(page, "listeners")
  /\ page' = StopReading(page)
  /\ PageStep("sr-stop", "ok")

\* The end event of the spoken utterance, or of the one that a cancel() cut
\* off: onend clears currentSpeech
ReadingEnd(u) ==
  /\ page.attached /\ Has(page, "listeners")
  /\ (page.queue # << >> /\ u = Head(page.queue)) \/ u \in page.cancelled
  /\ page' = [page EXCEPT !.queue = SelectSeq(@, LAMBDA x : x # u),
                          !.cancelled = @ \ {u},
                          !.currentSpeech = Null]
  /\ PageStep("onend", "ok")

\* The engine reports the cut-off utterance with an error event instead:
\* the ClickHandler sets no onerror
ReadingInterrupted(u) ==
  /\ page.attached /\ Has(page, "listeners")
  /\ u \in page.cancelled
  /\ page' = [page EXCEPT !.cancelled = @ \ {u}]
  /\ PageStep("onerror", "ok")

\* The texts of a list of sentences: sentences.map(s => s.text)
SentenceTexts(sentences) == [k \in DOMAIN sentences |-> sentences[k].text]

\* One call of splitIntoSentences(text) on the text of the page
SplitText ==
  /\ page.attached /\ Has(page, "sentences") /\ ~page.split
  /\ page' = [page EXCEPT !.split = TRUE, !.sentences = SplitIntoSentences(page.text)]
  /\ last' = Outcome("splitIntoSentences", "ok")
  /\ ControllerUnchanged
  /\ UNCHANGED << voices, onvoiceschanged, speechSupported, calls, now >>

\* A second call of splitIntoSentences, on the texts of the sentences that
\* the first call returned, joined with single spaces
ResplitText ==
  /\ page.attached /\ Has(page, "sentences") /\ page.split /\ ~page.resplit
  /\ page' = [page EXCEPT
               !.resplit = TRUE,
               !.again = SplitIntoSentences(JoinSpace(SentenceTexts(page.sentences)))]
  /\ last' = Outcome("splitIntoSentences", "ok")
  /\ ControllerUnchanged
  /\ UNCHANGED << voices, onvoiceschanged, speechSupported, calls, now >>

\* ------------------------------------------------------------------------
\* TextExtractor (src/src/content/text-extractor.js)
\* ------------------------------------------------------------------------
\* The document is the sequence of the elements below <body>, in document
\* order.  An element has a tag, one class, its textContent, the number of
\* <p> below it (its children) and the length of the text inside its <a>;
\* no element carries an id or a role.

\* text.replace(/\s+/g, ' ')
CollapseWhitespace(text) ==
  LET first(i) == ~(IsSpace(text[i]) /\ i > 1 /\ IsSpace(text[i - 1]))
      kept     == SelectSeq([i \in DOMAIN text |-> i], first)
  IN  [k \in DOMAIN kept |-> text[kept[k]]]

\* The textContent of a list of elements
RECURSIVE TextContentOf(_)
TextContentOf(elements) ==
  IF elements = << >> THEN << >>
  ELSE Head(elements).text \o TextContentOf(Tail(elements))

\* _removeUnwantedElements: the selectors that name a tag or a class
UnwantedElement(e) ==
  \/ e.tag \in {"script", "style", "nav", "header", "footer", "aside"}
  \/ e.class \in {"advertisement", "ad", "social-share", "comments", "sidebar",
                  "menu", "navigation"}

\* _extractTextFromElement: 'script, style, nav, header, footer, .ad'
UnwantedInText(e) ==
  \/ e.tag \in {"script", "style", "nav", "header", "footer"}
  \/ e.class = "ad"

\* 'main, article, [role="main"]'
IsSemantic(e) == e.tag \in {"main", "article"}

\* '.content', '.post', '.article', '.entry' (and the ids)
HasContentClass(e) == e.class \in {"content", "post", "article", "entry"}

\* _extractWithFallback: selectors, in the order they are tried
FallbackSelectors ==
  << [tag |-> "main"], [tag |-> "article"], [role |-> "main"], [class |-> "content"],
     [class |-> "post-content"], [class |-> "entry-content"],
     [class |-> "article-content"], [id |-> "content"], [id |-> "main"],
     [class |-> "main-content"] >>
Matches(e, selector) ==
  \/ Has(selector, "tag") /\ e.tag = selector.tag
  \/ Has(selector, "class") /\ e.class = selector.class

\* document.querySelector(selector): the first match in document order, or 0
QuerySelector(elements, selector) ==
  LET found == {i \in DOMAIN elements : Matches(elements[i], selector)}
  IN  IF found = {} THEN Null ELSE CHOOSE i \in found : \A j \in found : i <= j

\* A score as the fraction num / den
ScoreGreater(a, b) == a.num * b.den > b.num * a.den

\* _calculateContentScore: linkDensity > 0.5
LinkDense(e) == Len(Trim(e.text)) > 0 /\ 2 * e.linkText > Len(Trim(e.text))

\* _calculateContentScore: more than 20 children of under 50 characters each
ManySmall(e) == e.children > 20 /\ Len(Trim(e.text)) < 50 * e.children

\* _calculateContentScore: textLength / 25 + 25 * paragraphs, times
\* (1 - linkDensity) under dense links, times 0.5 under many small children,
\* and never below 0
CalculateContentScore(e) ==
  [ num |-> Max(0, (Len(Trim(e.text)) + 625 * e.paragraphs)
                     * (IF LinkDense(e) THEN Len(Trim(e.text)) - e.linkText ELSE 1)),
    den |-> 25 * (IF LinkDense(e) THEN Len(Trim(e.text)) ELSE 1)
               * (IF ManySmall(e) THEN 2 ELSE 1) ]

\* _findMainContent: the candidates in the order they are pushed
Candidates(elements) ==
  LET ids      == [i \in DOMAIN elements |-> i]
      scored(i, bonus) ==
        LET score == CalculateContentScore(elements[i])
        IN  [element |-> i, score |-> [score EXCEPT !.num = @ + bonus * score.den]]
      semantic == SelectSeq(ids, LAMBDA i : IsSemantic(elements[i]))
      content  == SelectSeq(ids, LAMBDA i : HasContentClass(elements[i]))
      dense    == SelectSeq(ids, LAMBDA i :
                    /\ elements[i].tag = "div"
                    /\ ScoreGreater(CalculateContentScore(elements[i]),
                                    [num |-> 50, den |-> 1]))
  IN  [k \in DOMAIN semantic |-> scored(semantic[k], 100)]
        \o [k \in DOMAIN content |-> scored(content[k], 0)]
        \o [k \in DOMAIN dense |-> scored(dense[k], 0)]

\* candidates.sort((a, b) => b.score - a.score)[0], the sort being stable:
\* the first of the candidates that no candidate outscores
FirstBest(candidates) ==
  CHOOSE k \in DOMAIN candidates :
    /\ \A j \in DOMAIN candidates : ~ScoreGreater(candidates[j].score, candidates[k].score)
    /\ \A j \in 1 .. (k - 1) : ScoreGreater(candidates[k].score, candidates[j].score)

\* _findMainContent
FindMainContent(elements) ==
  IF Candidates(elements) = << >> THEN Null
  ELSE Candidates(elements)[FirstBest(Candidates(elements))].element

\* _extractTextFromElement(element), for an element below <body>
ExtractTextFromElement(e) == Trim(CollapseWhitespace(e.text))

\* _extractTextFromElement(document.body)
ExtractTextFromBody(elements) ==
  Trim(CollapseWhitespace(
    TextContentOf(SelectSeq(elements, LAMBDA e : ~UnwantedInText(e)))))

\* _extractWithReadability: the text, or NoText when it throws
ExtractWithReadability(elements) ==
  LET clone   == SelectSeq(elements, LAMBDA e : ~UnwantedElement(e))
      article == FindMainContent(clone)
  IN  IF article = Null THEN NoText ELSE ExtractTextFromElement(clone[article])

\* _extractWithFallback: the largest of the first matches of the selectors,
\* the first of them on a tie, or the body
RECURSIVE BestElement(_, _, _, _)
BestElement(elements, k, bestElement, maxTextLength) ==
  IF k > Len(FallbackSelectors) THEN bestElement
  ELSE LET element    == QuerySelector(elements, FallbackSelectors[k])
           textLength == IF element = Null THEN 0 ELSE Len(Trim(elements[element].text))
       IN  IF element # Null /\ textLength > maxTextLength
           THEN BestElement(elements, k + 1, element, textLength)
           ELSE BestElement(elements, k + 1, bestElement, maxTextLength)

\* _extractWithFallback
ExtractWithFallback(elements) ==
  LET bestElement == BestElement(elements, 1, Null, 0)
  IN  IF bestElement = Null THEN ExtractTextFromBody(elements)
      ELSE ExtractTextFromElement(elements[bestElement])

\* extractArticleText: what the promise settles with
ExtractArticle(readyState, elements) ==
  IF readyState \notin {"complete", "interactive"}
  THEN [threw |-> "ExtractionError", code |-> "PAGE_NOT_READY"]
  ELSE
    LET readable    == ExtractWithReadability(elements)
        useFallback == readable = NoText \/ Len(readable) < 100
        extractedText == IF useFallback THEN ExtractWithFallback(elements) ELSE readable
    IN  IF extractedText = NoText \/ Len(Trim(extractedText)) = 0
        THEN [threw |-> "ExtractionError", code |-> "NO_CONTENT"]
        ELSE [ threw |-> "none", extractedText |-> Trim(extractedText),
               extractionMethod |-> IF useFallback THEN "fallback" ELSE "readability" ]

\* One call of extractArticleText() on the page
ExtractArticleText ==
  /\ page.attached /\ Has(page, "elements") /\ ~page.extracted
  /\ page' = [page EXCEPT !.extracted = TRUE,
                          !.result = ExtractArticle(page.readyState, page.elements)]
  /\ last' = Outcome("extractArticleText", IF page'.result.threw = "none" THEN "ok"
                                           ELSE page'.result.threw)
  /\ ControllerUnchanged
  /\ UNCHANGED << voices, onvoiceschanged, speechSupported, calls, now >>

\* ------------------------------------------------------------------------
\* Session transfer
\* ------------------------------------------------------------------------

\* AudioSession.fromJSON(session.toJSON()) on the session held by the page
RestoreSession ==
  /\ page.attached /\ Has(page, "session") /\ ~page.restored
  /\ page' = [page EXCEPT !.restored = TRUE, !.result = FromJSON(ToJSON(page.session))]
  /\ last' = Outcome("fromJSON", IF page'.result.threw = "none" THEN "ok" ELSE "Error")
  /\ ControllerUnchanged
  /\ UNCHANGED << voices, onvoiceschanged, speechSupported, calls, now >>

\* ------------------------------------------------------------------------
\* Specification
\* ------------------------------------------------------------------------
Bounded(maxSessions, maxUtterances, maxCalls) ==
  /\ Len(sessions) <= maxSessions
  /\ Cardinality(DOMAIN utterances) <= maxUtterances
  /\ Cardinality(DOMAIN calls) <= maxCalls

\* Every operation of the controller and every event of its environment,
\* with the inputs drawn from the given sets.
NextFor(requests, speeds, volumes, charIndices, maxSessions, maxUtterances, maxCalls) ==
  LET InBounds == Bounded(maxSessions, maxUtterances, maxCalls)
      sids == 1 .. maxSessions
      cids == 1 .. maxCalls
      uids == 1 .. maxUtterances
  IN
  \/ \E request \in requests : StartSpeech(request) /\ InBounds'
  \/ \E c \in cids : StartSpeechAfterVoice(c) /\ InBounds'
  \/ \E c \in cids : StartSpeechAfterSynthesis(c)
  \/ \E sid \in sids : PauseSpeech(sid)
  \/ \E sid \in sids : ResumeSpeech(sid) /\ InBounds'
  \/ \E c \in cids : ResumeSpeechAfterVoice(c) /\ InBounds'
  \/ \E c \in cids : ResumeSpeechAfterSynthesis(c)
  \/ \E sid \in sids : StopSpeech(sid)
  \/ \E sid \in sids, speed \in speeds : SetSpeed(sid, speed) /\ InBounds'
  \/ \E c \in cids : SetSpeedAfterVoice(c) /\ InBounds'
  \/ \E c \in cids : SetSpeedAfterSynthesis(c)
  \/ \E sid \in sids, volume \in volumes : SetVolume(sid, volume)
  \/ \E c \in cids : VoiceTimeout(c)
  \/ VoicesChanged
  \/ \E u \in uids : EngineStart(u)
  \/ \E u \in uids, name \in BoundaryNames, charIndex \in charIndices :
       EngineBoundary(u, name, charIndex)
  \/ \E u \in uids : EngineEnd(u)
  \/ \E u \in uids : EngineError(u)

\* Two sessions side by side, with the inputs that steer the control flow;
\* outcomes are not observed.
Init == InitFor(FALSE)
Next == NextFor(Requests, SpeedInputs, VolumeInputs, CharIndices,
                MaxSessions, MaxUtterances, MaxCalls)
Spec == Init /\ [][Next]_vars

\* One session from its start to its end, started at a word index inside,
\* below and beyond the text; outcomes are observed.
OneSession == 1
MaxSessionUtterances == 2
MaxSessionCalls == 1
MaxSessionCharIndex == 6
SessionRequests ==
  { NullRequest,
    BaseRequest,
    [BaseRequest EXCEPT !.startWordIndex = Num(1)],
    [BaseRequest EXCEPT !.startWordIndex = Num(-1)],
    [BaseRequest EXCEPT !.startWordIndex = Num(5)],
    [BaseRequest EXCEPT !.text = TextPunct] }
SessionSpeeds == {15}      \* 1.5 (valid), 2.5 (out of range)
SessionVolumes == {5}      \* 0.5 (valid), 1.1 (out of range)
InitSession == InitFor(TRUE)
NextSession == NextFor(SessionRequests, SessionSpeeds, SessionVolumes,
                       -1 .. MaxSessionCharIndex,
                       OneSession, MaxSessionUtterances, MaxSessionCalls)
SpecSession == InitSession /\ [][NextSession]_vars

\* The registry up to and beyond its limit: starts of one valid request,
\* also two in flight at once; outcomes are observed.
MaxLimitSessions == 11
MaxLimitCalls == 2
LimitBounded ==
  Bounded(MaxLimitSessions, MaxLimitSessions, MaxLimitCalls)
LimitRequest == [BaseRequest EXCEPT !.text = TextAB]
InitLimit == InitFor(TRUE)
NextLimit ==
  \/ StartSpeech(LimitRequest) /\ LimitBounded'
  \/ \E c \in 1 .. MaxLimitCalls : StartSpeechAfterVoice(c) /\ LimitBounded'
  \/ \E c \in 1 .. MaxLimitCalls : StartSpeechAfterSynthesis(c)
  \/ \E c \in 1 .. MaxLimitCalls : VoiceTimeout(c)
  \/ VoicesChanged
SpecLimit == InitLimit /\ [][NextLimit]_vars

\* One session and its settings: requests with speeds and volumes at, inside
\* and beyond the ends of their ranges, setSpeed and setVolume likewise,
\* with the voices loaded; outcomes are observed.
OneSettingsSession == 1
MaxSettingsUtterances == 2
MaxSettingsCalls == 1
SettingsRequests ==
  { LimitRequest,
    [LimitRequest EXCEPT !.speed = Num(5)],
    [LimitRequest EXCEPT !.speed = Num(20)],
    [LimitRequest EXCEPT !.speed = Num(25)],
    [LimitRequest EXCEPT !.volume = Num(0)],
    [LimitRequest EXCEPT !.volume = Num(5)],
    [LimitRequest EXCEPT !.volume = Num(11)] }
SettingsSpeeds == {4, 15, 25}     \* 0.4 (below), 1.5 (valid), 2.5 (above)
SettingsVolumes == {-1, 0, 11}    \* -0.1 (below), 0.0 (valid), 1.1 (above)
SettingsBounded ==
  Bounded(OneSettingsSession, MaxSettingsUtterances, MaxSettingsCalls)
InitSettings == InitFor(TRUE) /\ voices = LoadedVoices /\ speechSupported
NextSettings ==
  \/ \E request \in SettingsRequests : StartSpeech(request) /\ SettingsBounded'
  \/ \E c \in 1 .. MaxSettingsCalls : StartSpeechAfterVoice(c) /\ SettingsBounded'
  \/ \E c \in 1 .. MaxSettingsCalls : StartSpeechAfterSynthesis(c)
  \/ \E sid \in 1 .. OneSettingsSession : PauseSpeech(sid)
  \/ \E sid \in 1 .. OneSettingsSession, speed \in SettingsSpeeds :
       SetSpeed(sid, speed) /\ SettingsBounded'
  \/ \E c \in 1 .. MaxSettingsCalls : SetSpeedAfterVoice(c) /\ SettingsBounded'
  \/ \E c \in 1 .. MaxSettingsCalls : SetSpeedAfterSynthesis(c)
  \/ \E sid \in 1 .. OneSettingsSession, volume \in SettingsVolumes :
       SetVolume(sid, volume)
  \/ \E u \in 1 .. MaxSettingsUtterances : EngineStart(u)
  \/ \E u \in 1 .. MaxSettingsUtterances : EngineEnd(u)
SpecSettings == InitSettings /\ [][NextSettings]_vars

\* Callers of startSpeech waiting for a voice list that stays empty: the
\* voiceschanged event never fires.  A timer that is set fires (strong
\* fairness: other callers' continuations only delay it), and a ready
\* continuation runs.
MaxWaitCalls == 3
WaitRequests == {LimitRequest, [LimitRequest EXCEPT !.startWordIndex = Num(1)]}
InitWait == InitFor(TRUE) /\ voices = <<>> /\ speechSupported
NextWait ==
  \/ \E request \in WaitRequests :
       StartSpeech(request) /\ Cardinality(DOMAIN calls') <= MaxWaitCalls
  \/ \E c \in 1 .. MaxWaitCalls : VoiceTimeout(c)
  \/ \E c \in 1 .. MaxWaitCalls : StartSpeechAfterVoice(c)
SpecWait ==
  /\ InitWait /\ [][NextWait]_vars
  /\ \A c \in 1 .. MaxWaitCalls :
       SF_vars(VoiceTimeout(c)) /\ WF_vars(StartSpeechAfterVoice(c))

\* Starts and stops of two sessions side by side, with the engine starting
\* and ending utterances; outcomes are observed.
MaxInterruptSessions == 2
MaxInterruptUtterances == 2
MaxInterruptCalls == 1
InterruptBounded ==
  Bounded(MaxInterruptSessions, MaxInterruptUtterances, MaxInterruptCalls)
InitInterrupt == InitFor(TRUE) /\ speechSupported
NextInterrupt ==
  \/ StartSpeech(LimitRequest) /\ InterruptBounded'
  \/ \E c \in 1 .. MaxInterruptCalls : StartSpeechAfterVoice(c) /\ InterruptBounded'
  \/ \E c \in 1 .. MaxInterruptCalls : StartSpeechAfterSynthesis(c)
  \/ \E sid \in 1 .. MaxInterruptSessions : StopSpeech(sid)
  \/ \E c \in 1 .. MaxInterruptCalls : VoiceTimeout(c)
  \/ VoicesChanged
  \/ \E u \in 1 .. MaxInterruptUtterances : EngineStart(u)
  \/ \E u \in 1 .. MaxInterruptUtterances : EngineEnd(u)
SpecInterrupt == InitInterrupt /\ [][NextInterrupt]_vars

\* Sessions that age: the clock advances, pausing or an engine event touches
\* a session, and the sweep runs at any moment.
MaxCleanupSessions == 3
MaxCleanupUtterances == 2
MaxCleanupCalls == 1
MaxNow == 4
CleanupBounded == Bounded(MaxCleanupSessions, MaxCleanupUtterances, MaxCleanupCalls)
InitCleanup == InitFor(TRUE) /\ speechSupported /\ voices = LoadedVoices
NextCleanup ==
  \/ StartSpeech(LimitRequest) /\ CleanupBounded'
  \/ \E c \in 1 .. MaxCleanupCalls : StartSpeechAfterVoice(c) /\ CleanupBounded'
  \/ \E c \in 1 .. MaxCleanupCalls : StartSpeechAfterSynthesis(c)
  \/ \E sid \in 1 .. MaxCleanupSessions : PauseSpeech(sid)
  \/ \E u \in 1 .. MaxCleanupUtterances : EngineStart(u)
  \/ Tick /\ now' <= MaxNow
  \/ CleanupInactiveSessions
SpecCleanup == InitCleanup /\ [][NextCleanup]_vars

\* Two sessions whose utterances fail: the engine reports an error for the
\* utterance being spoken, or for one that a restart or a stop cancelled.
MaxErrorSessions == 2
MaxErrorUtterances == 2
MaxErrorCalls == 1
ErrorSpeeds == {15}
ErrorBounded == Bounded(MaxErrorSessions, MaxErrorUtterances, MaxErrorCalls)
InitError == InitFor(TRUE) /\ speechSupported /\ voices = LoadedVoices
NextError ==
  \/ StartSpeech(LimitRequest) /\ ErrorBounded'
  \/ \E c \in 1 .. MaxErrorCalls : StartSpeechAfterVoice(c) /\ ErrorBounded'
  \/ \E c \in 1 .. MaxErrorCalls : StartSpeechAfterSynthesis(c)
  \/ \E sid \in 1 .. MaxErrorSessions : PauseSpeech(sid)
  \/ \E sid \in 1 .. MaxErrorSessions : StopSpeech(sid)
  \/ \E sid \in 1 .. MaxErrorSessions, speed \in ErrorSpeeds :
       SetSpeed(sid, speed) /\ ErrorBounded'
  \/ \E c \in 1 .. MaxErrorCalls : SetSpeedAfterVoice(c) /\ ErrorBounded'
  \/ \E c \in 1 .. MaxErrorCalls : SetSpeedAfterSynthesis(c)
  \/ \E u \in 1 .. MaxErrorUtterances : EngineStart(u)
  \/ \E u \in 1 .. MaxErrorUtterances : EngineError(u)
SpecError == InitError /\ [][NextError]_vars

\* setSpeed and setVolume issued together on one session, as by
\* Promise.all([setSpeed(id, s), setVolume(id, v)]): the second call starts
\* in the same turn as the first, in either order, before any continuation.
\* A session starts with the default speed and volume, and each of the two
\* is changed once.
MaxConcurrentSessions == 2
MaxConcurrentUtterances == 2
MaxConcurrentCalls == 1
ConcurrentSpeed == 15
ConcurrentVolume == 5
ConcurrentBounded ==
  Bounded(MaxConcurrentSessions, MaxConcurrentUtterances, MaxConcurrentCalls)
SpeedIssued(sid) == sessions[sid].speed # 10
VolumeIssued(sid) == sessions[sid].volume # 10
InitConcurrent == InitFor(TRUE) /\ speechSupported
NextConcurrent ==
  \/ StartSpeech(LimitRequest) /\ ConcurrentBounded'
  \/ \E c \in 1 .. MaxConcurrentCalls : StartSpeechAfterVoice(c) /\ ConcurrentBounded'
  \/ \E c \in 1 .. MaxConcurrentCalls : StartSpeechAfterSynthesis(c)
  \/ \E sid \in 1 .. MaxConcurrentSessions : PauseSpeech(sid)
  \/ \E sid \in 1 .. MaxConcurrentSessions :
       /\ sid \in activeSessions
       /\ ~SpeedIssued(sid)
       /\ ~VolumeIssued(sid) \/ last = [op |-> "setVolume", result |-> "ok"]
       /\ SetSpeed(sid, ConcurrentSpeed) /\ ConcurrentBounded'
  \/ \E c \in 1 .. MaxConcurrentCalls : SetSpeedAfterVoice(c) /\ ConcurrentBounded'
  \/ \E c \in 1 .. MaxConcurrentCalls : SetSpeedAfterSynthesis(c)
  \/ \E sid \in 1 .. MaxConcurrentSessions :
       /\ sid \in activeSessions
       /\ ~VolumeIssued(sid)
       /\ ~SpeedIssued(sid) \/ last.op = "setSpeed"
       /\ SetVolume(sid, ConcurrentVolume)
  \/ \E c \in 1 .. MaxConcurrentCalls : VoiceTimeout(c)
  \/ VoicesChanged
  \/ \E u \in 1 .. MaxConcurrentUtterances : EngineStart(u)
  \/ \E u \in 1 .. MaxConcurrentUtterances : EngineEnd(u)
SpecConcurrent == InitConcurrent /\ [][NextConcurrent]_vars

\* Clicks on a page: every article text the extractor can hand over (trimmed,
\* whitespace collapsed) or none, every sentence that a click can hit in a
\* short paragraph or none, and both outcomes of the element fallback.
MaxArticleLen == 5
MaxParagraphLen == 3
Chars == {"a", "b", ".", " "}
RECURSIVE TextsOfLen(_)
TextsOfLen(n) ==
  IF n = 0 THEN {<< >>} ELSE {Append(t, c) : t \in TextsOfLen(n - 1), c \in Chars}
TextsUpTo(n) == UNION {TextsOfLen(k) : k \in 0 .. n}
Normalised(text) ==
  /\ text # << >> /\ Trim(text) = text
  /\ \A i \in 1 .. (Len(text) - 1) : ~(IsSpace(text[i]) /\ IsSpace(text[i + 1]))
ArticleTexts == {text \in TextsUpTo(MaxArticleLen) : Normalised(text)} \cup {NoText}
ClickedTexts ==
  UNION {{sentence.text : sentence \in SeqToSet(SplitIntoSentences(paragraph))} :
           paragraph \in TextsUpTo(MaxParagraphLen)} \cup {NoText}
ElementTexts == {NoText, <<"a", ".">>}
InitClick ==
  /\ InitController(TRUE) /\ speechSupported /\ voices = LoadedVoices
  /\ \E fullArticleText \in ArticleTexts, clickedText \in ClickedTexts,
        elementText \in ElementTexts :
       page = [ attached |-> TRUE, resolved |-> FALSE,
                fullArticleText |-> fullArticleText, clickedText |-> clickedText,
                elementText |-> elementText,
                currentReadingInfo |-> NoReadingInfo, returned |-> NoText ]
NextClick == ExtractTextFromClick
SpecClick == InitClick /\ [][NextClick]_vars

\* Pages of up to two elements below <body>: a semantic element, a plain or
\* content-class <div>, a bare paragraph, navigation or an advertisement,
\* each empty, with a short text or with a text over the 100 characters that
\* the first pass asks for.
MaxElements == 2
LongTextLen == 120
ShortText == <<"a", " ", " ", "b">>
LongText == [i \in 1 .. LongTextLen |-> IF i % 6 = 0 THEN " " ELSE "a"]
PageElements ==
  { [tag |-> tag, class |-> class, text |-> text, paragraphs |-> paragraphs,
     children |-> paragraphs, linkText |-> IF links THEN Len(text) ELSE 0] :
      tag \in {"main", "div", "p", "nav"}, class \in {"", "content", "post", "ad"},
      text \in {NoText, ShortText, LongText}, paragraphs \in {0, 3},
      links \in BOOLEAN }
Documents == UNION {[1 .. n -> PageElements] : n \in 0 .. MaxElements}
InitExtract ==
  /\ InitController(TRUE) /\ speechSupported /\ voices = LoadedVoices
  /\ \E readyState \in {"loading", "complete"}, elements \in Documents :
       page = [ attached |-> TRUE, readyState |-> readyState, elements |-> elements,
                extracted |-> FALSE, result |-> [threw |-> "none"] ]
NextExtract == ExtractArticleText
SpecExtract == InitExtract /\ [][NextExtract]_vars

\* One session reading four words, with a word or sentence boundary event at
\* any character of the utterance.
OneBoundarySession == 1
MaxBoundaryUtterances == 2
MaxBoundaryCalls == 1
MaxBoundaryCharIndex == 6
TextABCD == <<"a", " ", "b", " ", "c", " ", "d">>     \* "a b c d": 4 words
BoundaryRequest == [BaseRequest EXCEPT !.text = TextABCD]
BoundaryBounded == Bounded(OneBoundarySession, MaxBoundaryUtterances, MaxBoundaryCalls)
InitBoundary == InitFor(TRUE) /\ speechSupported /\ voices = LoadedVoices
NextBoundary ==
  \/ StartSpeech(BoundaryRequest) /\ BoundaryBounded'
  \/ \E c \in 1 .. MaxBoundaryCalls : StartSpeechAfterVoice(c) /\ BoundaryBounded'
  \/ \E c \in 1 .. MaxBoundaryCalls : StartSpeechAfterSynthesis(c)
  \/ \E sid \in 1 .. OneBoundarySession : PauseSpeech(sid)
  \/ \E sid \in 1 .. OneBoundarySession : ResumeSpeech(sid) /\ BoundaryBounded'
  \/ \E c \in 1 .. MaxBoundaryCalls : ResumeSpeechAfterVoice(c) /\ BoundaryBounded'
  \/ \E c \in 1 .. MaxBoundaryCalls : ResumeSpeechAfterSynthesis(c)
  \/ \E sid \in 1 .. OneBoundarySession : StopSpeech(sid)
  \/ \E u \in 1 .. MaxBoundaryUtterances : EngineStart(u)
  \/ \E u \in 1 .. MaxBoundaryUtterances, name \in BoundaryNames,
        charIndex \in 0 .. MaxBoundaryCharIndex : EngineBoundary(u, name, charIndex)
  \/ \E u \in 1 .. MaxBoundaryUtterances : EngineEnd(u)
SpecBoundary == InitBoundary /\ [][NextBoundary]_vars

\* The whole life of one session under a running clock: every operation of
\* the controller, the sweep included, and every engine event, with speeds
\* and volumes inside and beyond their ranges; outcomes are not observed.
OneLifeSession == 1
MaxLifeUtterances == 2
MaxLifeCalls == 1
MaxLifeNow == 3
LifeCharIndex == 2
LifeSpeeds == {15, 25}
LifeVolumes == {5, 11}
InitLife == InitFor(FALSE) /\ speechSupported
NextLife ==
  \/ NextFor({LimitRequest}, LifeSpeeds, LifeVolumes, {LifeCharIndex},
             OneLifeSession, MaxLifeUtterances, MaxLifeCalls)
  \/ CleanupInactiveSessions
  \/ Tick /\ now' <= MaxLifeNow
SpecLife == InitLife /\ [][NextLife]_vars

\* Every text of up to five characters over two letters, two sentence
\* terminators and the space, handed to splitIntoSentences as it is.
MaxSplitLen == 5
SplitChars == {"a", "b", ".", "!", " "}
RECURSIVE SplitTextsOfLen(_)
SplitTextsOfLen(n) ==
  IF n = 0 THEN {<< >>} ELSE {Append(t, c) : t \in SplitTextsOfLen(n - 1), c \in SplitChars}
SplitTexts == UNION {SplitTextsOfLen(n) : n \in 0 .. MaxSplitLen}
InitSplit ==
  /\ InitController(TRUE) /\ speechSupported /\ voices = LoadedVoices
  /\ \E text \in SplitTexts :
       page = [ attached |-> TRUE, text |-> text, split |-> FALSE, sentences |-> << >>,
                resplit |-> FALSE, again |-> << >> ]
NextSplit == SplitText \/ ResplitText
SpecSplit == InitSplit /\ [][NextSplit]_vars

\* Sessions in every playback state, at every word of two texts, with speeds
\* and volumes at the ends of their ranges and inside them.
MaxStoredPosition == 2
StoredSessions ==
  { [ NewAudioSession(1, "content-1", "unknown", text, position, speed, volume, "tab-1")
        EXCEPT !.isPlaying = flags[1], !.isPaused = flags[2] ] :
      text \in {TextAB, TextABC}, position \in 0 .. MaxStoredPosition,
      speed \in {5, 10, 20}, volume \in {0, 5, 10},
      flags \in {<< FALSE, FALSE >>, << TRUE, FALSE >>, << FALSE, TRUE >>} }
InitStored ==
  /\ InitController(TRUE) /\ speechSupported /\ voices = LoadedVoices
  /\ \E session \in StoredSessions :
       page = [ attached |-> TRUE, session |-> session, restored |-> FALSE,
                result |-> [threw |-> "none"] ]
NextStored == RestoreSession
SpecStored == InitStored /\ [][NextStored]_vars

\* The click-to-read path of one page: the handler is switched on and off,
\* the user clicks on article text and stops the reading, and the page's
\* engine ends utterances, those cut off by a cancel() included.
MaxListeners == 3
MaxPageUtterances == 3
InitReading ==
  /\ InitController(TRUE) /\ speechSupported /\ voices = LoadedVoices
  /\ page = [ attached |-> TRUE, isActive |-> FALSE, listeners |-> 0,
              currentSpeech |-> Null, queue |-> << >>, cancelled |-> {}, readings |-> 0 ]
NextReading ==
  \/ Activate /\ page'.listeners <= MaxListeners
  \/ Deactivate
  \/ Click /\ Cardinality(PageReferenced(page')) <= MaxPageUtterances
  \/ StopCommand
  \/ \E u \in 1 .. MaxPageUtterances : ReadingEnd(u)
  \/ \E u \in 1 .. MaxPageUtterances : ReadingInterrupted(u)
SpecReading == InitReading /\ [][NextReading]_vars

TypeOK ==
  /\ activeSessions \subseteq DOMAIN sessions
  /\ currentSessionId \in {Null} \cup DOMAIN sessions
  /\ currentUtterance \in {Null} \cup DOMAIN utterances

\* ------------------------------------------------------------------------
\* Properties
\* ------------------------------------------------------------------------
Live == LiveUtterances(World)
FocusIsLive == currentSessionId # Null /\ currentUtterance \in Live

\* The fields of the session object sid that the claims speak of
Flags(ss, sid) == << ss[sid].isPlaying, ss[sid].isPaused >>
SameSession(sid) == Alive(sessions', sid) => sessions'[sid] = sessions[sid]
FocusUnchanged == UNCHANGED << currentSessionId, currentUtterance >>

\* C1: when startSpeech for a session B submits its utterance while another
\* session A holds the engine focus with a live utterance, the engine gets
\* exactly one cancel() after A's speak() and before B's speak().  A cancel()
\* empties the engine's queue, so once B's utterance has been submitted A's
\* utterance is no longer queued and B's is the only one.
C1_CancelBeforeSpeak ==
  [][\A c \in DOMAIN calls :
       (FocusIsLive /\ StartSpeechAfterVoice(c) /\ currentSessionId' = Len(sessions) + 1)
         => synth'.queue = << currentUtterance' >>]_vars

\* C2: the engine never holds more than one live utterance.
C2_OneLiveUtterance == Cardinality(Live) <= 1

\* C3: once setSpeed has restarted a session's utterance, the completion
\* event of a cancelled utterance of that session is discarded: the session's
\* isPlaying, isPaused and word index stay, and so does the engine focus held
\* by the replacement.
C3_StaleEndDiscarded ==
  [][\A u \in DOMAIN utterances :
       LET sid == utterances[u].session
       IN  (/\ IsStale(u)
            /\ currentSessionId = sid /\ currentUtterance \in Live
            /\ utterances[currentUtterance].submittedBy = "setSpeed"
            /\ EngineEnd(u))
             => /\ Flags(sessions', sid) = Flags(sessions, sid)
                /\ sessions'[sid].currentPosition = sessions[sid].currentPosition
                /\ FocusUnchanged]_vars

\* C4: once session B has taken the engine focus from session A, a late onend
\* or onboundary event of A's utterance changes no field of A, no field of B
\* and leaves B's focus as it is.
C4_LateEventsOfPreempted ==
  [][\A u \in DOMAIN utterances :
       (/\ utterances[u].superseded
        /\ currentSessionId \notin {Null, utterances[u].session}
        /\ \/ EngineEnd(u)
           \/ \E name \in BoundaryNames, charIndex \in CharIndices :
                EngineBoundary(u, name, charIndex))
         => /\ \A sid \in DOMAIN sessions : SameSession(sid)
            /\ FocusUnchanged]_vars

\* C5: the registry never holds more than maxConcurrentSessions sessions,
\* also when several startSpeech calls are in flight at once.
C5_RegistryBounded == Cardinality(activeSessions) <= maxConcurrentSessions

\* C6: startSpeech with a valid request, called while the registry holds
\* maxConcurrentSessions sessions, throws SessionLimitError and leaves the
\* registry, the session objects, the engine focus and the engine as they
\* are; no call is left in flight.
C6_RejectedAtLimit ==
  [][(/\ ValidateStartRequest(LimitRequest) = "none" /\ speechSupported
      /\ Cardinality(activeSessions) = maxConcurrentSessions
      /\ StartSpeech(LimitRequest))
       => /\ last' = [op |-> "startSpeech", result |-> "SessionLimitError"]
          /\ ControllerUnchanged
          /\ UNCHANGED calls]_vars
C6_Witness ==
  /\ last = [op |-> "startSpeech", result |-> "SessionLimitError"]
  /\ Cardinality(activeSessions) = maxConcurrentSessions

\* C7: the word index of every session is within 0 .. totalWords, whatever
\* boundary and completion events with whatever character index arrived.
C7_PositionInRange ==
  \A sid \in DOMAIN sessions :
    Alive(sessions, sid) =>
      /\ 0 <= sessions[sid].currentPosition
      /\ sessions[sid].currentPosition <= sessions[sid].totalWords
C7_Witness ==
  /\ last.op = "onend"
  /\ \E sid \in DOMAIN sessions :
       /\ Alive(sessions, sid)
       /\ sessions[sid].totalWords = 3
       /\ sessions[sid].currentPosition = sessions[sid].totalWords - 1

\* C8: after the onend event of the session's current utterance the word
\* index of the session is totalWords and isComplete() is true.
C8_CompleteAfterEnd ==
  [][\A u \in DOMAIN utterances :
       LET sid == utterances[u].session
       IN  (/\ u = currentUtterance /\ currentSessionId = sid
            /\ ~IsStale(u)
            /\ EngineEnd(u)
            /\ Alive(sessions', sid))
             => /\ sessions'[sid].currentPosition = sessions'[sid].totalWords
                /\ IsComplete(sessions'[sid])]_vars

\* C9: the onend event of an utterance of the session that holds the engine
\* focus leaves that session neither playing nor paused and releases the
\* focus: no current session and no current utterance.
C9_EndReleasesFocus ==
  [][\A u \in DOMAIN utterances :
       LET sid == utterances[u].session
       IN  (currentSessionId = sid /\ EngineEnd(u))
             => /\ Alive(sessions', sid) => Flags(sessions', sid) = << FALSE, FALSE >>
                /\ currentSessionId' = Null
                /\ currentUtterance' = Null]_vars
C9_Witness ==
  /\ last.op = "onend" /\ last.focus
  /\ currentSessionId = Null /\ currentUtterance = Null
  /\ \E sid \in DOMAIN sessions :
       Alive(sessions, sid) /\ Flags(sessions, sid) = << FALSE, FALSE >>

\* C10: the word index of a session never decreases, whatever operation or
\* event takes the step.
C10_PositionNeverDecreases ==
  [][\A sid \in DOMAIN sessions :
       (Alive(sessions, sid) /\ Alive(sessions', sid))
         => sessions'[sid].currentPosition >= sessions[sid].currentPosition]_vars
C10_Witness ==
  /\ last.op = "onboundary"
  /\ \E sid \in DOMAIN sessions :
       /\ Alive(sessions, sid)
       /\ sessions[sid].currentPosition = 1
       /\ sessions[sid].isPlaying

\* C11: setSpeed with a speed outside 0.5 .. 2.0 and setVolume with a volume
\* outside 0.0 .. 1.0 on a registered session throw, and leave the session
\* (speed, volume), every utterance (rate, volume), the engine (no cancel)
\* and the focus as they are; no restart is left in flight.
C11_OutOfRangeRejected ==
  [][\A sid \in activeSessions :
       LET Kept == last'.result = "Error" /\ ControllerUnchanged /\ UNCHANGED calls
       IN  /\ \A speed \in SettingsSpeeds :
                (~(5 <= speed /\ speed <= 20) /\ SetSpeed(sid, speed)) => Kept
           /\ \A volume \in SettingsVolumes :
                (~(0 <= volume /\ volume <= 10) /\ SetVolume(sid, volume)) => Kept]_vars
C11_Witness ==
  /\ last \in { [op |-> "setSpeed", result |-> "Error"],
                [op |-> "setVolume", result |-> "Error"] }
  /\ currentSessionId \in activeSessions
  /\ currentUtterance \in Live

\* C12: a startSpeech request whose speed is within 0.5 .. 2.0 and whose
\* volume is within 0.0 .. 1.0, the ends included, yields a session with the
\* requested speed and volume and an utterance with that rate and volume;
\* 1.0 is used only for a field that the request does not have.
Requested(x) == IF x = Absent THEN 10 ELSE x[1]
C12_RequestedSettingsApplied ==
  [][\A c \in DOMAIN calls :
       LET request == calls[c].request
           sid     == Len(sessions) + 1
       IN  (/\ calls[c].op = "startSpeech"
            /\ 5 <= Requested(request.speed) /\ Requested(request.speed) <= 20
            /\ 0 <= Requested(request.volume) /\ Requested(request.volume) <= 10
            /\ StartSpeechAfterVoice(c))
             => /\ Alive(sessions', sid)
                /\ sessions'[sid].speed = Requested(request.speed)
                /\ sessions'[sid].volume = Requested(request.volume)
                /\ currentUtterance' # Null
                /\ utterances'[currentUtterance'].rate = Requested(request.speed)
                /\ utterances'[currentUtterance'].volume = Requested(request.volume)]_vars

C14_ResumeNotPausedRejected ==
  [][\A sid \in activeSessions :
       (~sessions[sid].isPaused /\ ResumeSpeech(sid))
         => /\ last' = [op |-> "resumeSpeech", result |-> "Error"]
            /\ ControllerUnchanged
            /\ UNCHANGED calls]_vars
C14_Witness ==
  /\ last = [op |-> "resumeSpeech", result |-> "Error"]
  /\ currentSessionId \in activeSessions
  /\ sessions[currentSessionId].isPlaying
  /\ currentUtterance \in Live

\* C15: a session that the onend event has just marked as played (neither
\* playing nor paused) stays so under a pauseSpeech or resumeSpeech call,
\* and no utterance is submitted for it.
C15_StoppedIsTerminal ==
  [][\A sid \in activeSessions :
       (/\ last.op = "onend"
        /\ Flags(sessions, sid) = << FALSE, FALSE >>
        /\ PauseSpeech(sid) \/ ResumeSpeech(sid))
         => /\ Flags(sessions', sid) = << FALSE, FALSE >>
            /\ UNCHANGED << utterances, synth >>]_vars

\* C16: no registered session is playing and paused at once, whatever
\* operations and utterance events have happened in whatever order.
C16_PlayingExcludesPaused ==
  \A sid \in activeSessions :
    ~(sessions[sid].isPlaying /\ sessions[sid].isPaused)
C16_Witness ==
  \E u \in DOMAIN utterances :
    /\ utterances[u].started
    /\ utterances[u].session \in activeSessions
    /\ Flags(sessions, utterances[u].session) = << FALSE, TRUE >>
    /\ \E other \in activeSessions : sessions[other].isPlaying

\* C17: stopSpeech of a registered session takes it out of the registry;
\* pauseSpeech, resumeSpeech, stopSpeech, setSpeed and setVolume with the id
\* of a session that is not registered (stopped, or never created) throw
\* SessionNotFoundError and leave the registry, the sessions, the engine
\* focus and the engine as they are.
C17_UnknownSessionRejected ==
  [][\A sid \in (DOMAIN sessions) \cup {Len(sessions) + 1} :
       /\ (sid \in activeSessions /\ StopSpeech(sid)) => sid \notin activeSessions'
       /\ (/\ sid \notin activeSessions
           /\ \/ PauseSpeech(sid) \/ ResumeSpeech(sid) \/ StopSpeech(sid)
              \/ \E speed \in SessionSpeeds : SetSpeed(sid, speed)
              \/ \E volume \in SessionVolumes : SetVolume(sid, volume))
            => /\ last'.result = "SessionNotFoundError"
               /\ ControllerUnchanged
               /\ UNCHANGED calls]_vars
C17_Witness ==
  /\ last.result = "SessionNotFoundError"
  /\ Len(sessions) > 0
  /\ activeSessions = {}

\* C18: when startSpeech resolves, its session is registered, playing and
\* not paused, its word index is the requested startWordIndex (when that is
\* within 0 .. totalWords - 1, else 0), it holds the engine focus, and
\* exactly one utterance was submitted for it, with the text from that word
\* index on.
RequestedPosition(request, totalWords) ==
  LET index == Requested(request.startWordIndex)
  IN  IF request.startWordIndex # Absent /\ 0 <= index /\ index < totalWords
      THEN index ELSE 0
C18_ResolvedStart ==
  [][\A c \in DOMAIN calls :
       LET sid == calls[c].sid
           own == {u \in DOMAIN utterances' : utterances'[u].session = sid}
       IN  (/\ calls[c].op = "startSpeech" /\ calls[c].pc = "synth" /\ ~calls[c].threw
            /\ StartSpeechAfterSynthesis(c))
             => /\ sid \in activeSessions'
                /\ Flags(sessions', sid) = << TRUE, FALSE >>
                /\ sessions'[sid].currentPosition =
                     RequestedPosition(calls[c].request, sessions'[sid].totalWords)
                /\ currentSessionId' = sid
                /\ currentUtterance' \in own
                /\ Cardinality(own) = 1
                /\ \A u \in own :
                     /\ u \in SeqToSet(synth'.queue)
                     /\ utterances'[u].text = GetRemainingText(sessions'[sid])]_vars

\* C19: a startSpeech call that throws, at whichever of its steps, leaves
\* the registry with the sessions it had when the call was made (a session
\* that the call created is not in it) and leaves the engine focus as it is.
C19_RejectedStartLeavesRegistry ==
  [][LET Rejected == last'.op = "startSpeech" /\ last'.result \notin {"ok", "pending"}
         Kept     == UNCHANGED << activeSessions, currentSessionId, currentUtterance >>
     IN  /\ \A request \in SessionRequests :
              (StartSpeech(request) /\ Rejected) => Kept
         /\ \A c \in DOMAIN calls :
              ((StartSpeechAfterVoice(c) \/ StartSpeechAfterSynthesis(c)) /\ Rejected)
                => Kept /\ calls[c].sid \notin activeSessions']_vars

\* C20: while the voice list stays empty, every startSpeech call that waits
\* for voices settles, also with several callers waiting at once, and it
\* settles by throwing VoiceNotAvailableError, with nothing changed.
C20_VoiceWaitSettles ==
  /\ \A c \in 1 .. MaxWaitCalls : (c \in DOMAIN calls) ~> (c \notin DOMAIN calls)
  /\ [][\A c \in DOMAIN calls :
          StartSpeechAfterVoice(c)
            => /\ last' = [op |-> "startSpeech", result |-> "VoiceNotAvailableError"]
               /\ c \notin DOMAIN calls'
               /\ ControllerUnchanged]_vars
C20_Witness ==
  /\ last = [op |-> "startSpeech", result |-> "VoiceNotAvailableError"]
  /\ Len(voices) = 0
  /\ \E c \in DOMAIN calls : calls[c].pc = "voiceWait"

\* C21: a startSpeech call that is suspended when a stopSpeech call returns
\* is interrupted: its continuation submits no utterance and marks no
\* session as playing.
C21_StopInterruptsPendingStart ==
  [][\A c \in DOMAIN calls :
       (/\ calls[c].op = "startSpeech"
        /\ last = [op |-> "stopSpeech", result |-> "ok"]
        /\ StartSpeechAfterVoice(c) \/ StartSpeechAfterSynthesis(c))
         => /\ synth'.queue = synth.queue
            /\ \A sid \in DOMAIN sessions' :
                 (Alive(sessions', sid) /\ sessions'[sid].isPlaying)
                   => (Alive(sessions, sid) /\ sessions[sid].isPlaying)]_vars

C23_ErrorKeepsSession ==
  [][\A u \in DOMAIN utterances :
       (EngineError(u) /\ utterances[u].session \in activeSessions) =>
         LET sid == utterances[u].session
         IN  /\ sid \in activeSessions'
             /\ ~sessions'[sid].isPlaying
             /\ last'.sent = << [type |-> "SESSION_ERROR", sessionId |-> sid] >>
             /\ \A other \in activeSessions \ {sid} :
                  /\ other \in activeSessions'
                  /\ Flags(sessions', other) = Flags(sessions, other)
                  /\ sessions'[other].currentPosition = sessions[other].currentPosition
                  /\ sessions'[other].speed = sessions[other].speed
                  /\ sessions'[other].volume = sessions[other].volume]_vars
C23_Witness ==
  /\ last.op = "onerror"
  /\ last.session \in activeSessions
  /\ Len(last.sent) = 1
  /\ \E other \in activeSessions \ {last.session} : sessions[other].isPlaying

\* C24: when setSpeed(s) and setVolume(v) are issued together on a session,
\* in either order, the session takes speed s and volume v and keeps them,
\* and once both calls have settled the live utterance that the controller
\* holds for the session carries rate s and volume v.
SettingsSettled(sid) ==
  /\ sid \in activeSessions
  /\ SpeedIssued(sid) /\ VolumeIssued(sid)
  /\ \A c \in DOMAIN calls : ~(calls[c].op = "setSpeed" /\ calls[c].sid = sid)
C25_PauseResumeKeepsSettings ==
  [][\A sid \in DOMAIN sessions :
       (/\ Alive(sessions, sid) /\ Alive(sessions', sid)
        /\ \/ PauseSpeech(sid)
           \/ ResumeSpeech(sid)
           \/ \E c \in DOMAIN calls :
                /\ calls[c].sid = sid
                /\ ResumeSpeechAfterVoice(c) \/ ResumeSpeechAfterSynthesis(c))
         => /\ sessions'[sid].speed = sessions[sid].speed
            /\ sessions'[sid].volume = sessions[sid].volume
            /\ sessions'[sid].totalWords = sessions[sid].totalWords]_vars
C25_Witness ==
  /\ last = [op |-> "resumeSpeech", result |-> "ok"]
  /\ \E sid \in activeSessions :
       /\ sessions[sid].speed \in SessionSpeeds
       /\ sessions[sid].volume \in SessionVolumes
       /\ sessions[sid].isPlaying

\* The click named in C26 to C28: an article was extracted, a sentence was
\* found under the click, and extractTextFromClick has returned.
ClickResolved ==
  /\ page.attached /\ page.resolved
  /\ page.fullArticleText # NoText /\ page.clickedText # NoText
ArticleSentences == SplitIntoSentences(page.fullArticleText)

\* C26: when the clicked sentence text equals the text of article sentence i
\* (the first such sentence), the click resolves to startSentenceIndex = i,
\* whatever the earlier sentences are.
C26_ExactMatchWins ==
  ClickResolved =>
    \A i \in 0 .. (Len(ArticleSentences) - 1) :
      (/\ ArticleSentences[i + 1].text = page.clickedText
       /\ \A j \in 0 .. (i - 1) : ArticleSentences[j + 1].text # page.clickedText)
        => page.currentReadingInfo.startSentenceIndex = i

\* C27: a click whose sentence text is neither equal to, nor contains, nor
\* is contained in any article sentence, or that hit no sentence at all,
\* resolves to startSentenceIndex = 0 and returns the whole article (its
\* text, or all its sentences joined); the call returns and does not throw.
NoSentenceMatches ==
  \/ page.clickedText = NoText
  \/ \A k \in DOMAIN ArticleSentences :
       /\ ArticleSentences[k].text # page.clickedText
       /\ ~Includes(ArticleSentences[k].text, page.clickedText)
       /\ ~Includes(page.clickedText, ArticleSentences[k].text)
C27_FallbackToStart ==
  (/\ page.attached /\ page.resolved
   /\ page.fullArticleText # NoText
   /\ NoSentenceMatches)
    => /\ last = [op |-> "extractTextFromClick", result |-> "ok"]
       /\ page.currentReadingInfo.startSentenceIndex = 0
       /\ page.currentReadingInfo.sentences = ArticleSentences
       /\ \/ page.returned = page.fullArticleText
          \/ page.returned =
               JoinSpace([k \in DOMAIN ArticleSentences |-> ArticleSentences[k].text])
C27_Witness ==
  /\ page.attached /\ page.resolved
  /\ page.fullArticleText # NoText /\ page.clickedText # NoText
  /\ NoSentenceMatches
  /\ Len(ArticleSentences) >= 2

\* C28: the text returned for start index i is the texts of the article's
\* sentences i, i+1, ..., last, in order, with one space between two of
\* them, and it is not empty.
C28_RemainingText ==
  ClickResolved =>
    LET i == page.currentReadingInfo.startSentenceIndex
        n == Len(ArticleSentences)
    IN  /\ i \in 0 .. (n - 1)
        /\ page.returned # NoText
        /\ page.returned =
             JoinSpace([k \in 1 .. (n - i) |-> ArticleSentences[i + k].text])
C28_Witness ==
  /\ ClickResolved
  /\ page.currentReadingInfo.startSentenceIndex >= 1
  /\ page.currentReadingInfo.startSentenceIndex < Len(ArticleSentences) - 1

\* C29: article extraction on a ready page fails with the no-content error
\* whenever no element qualifies as a content candidate: no semantic
\* element, no content-class element and no <div> whose score passes the
\* threshold, even when the body holds text.
C29_NoCandidateFails ==
  (/\ page.extracted
   /\ page.readyState = "complete"
   /\ \A i \in DOMAIN page.elements :
        LET e == page.elements[i]
        IN  UnwantedElement(e) \/
            (/\ ~IsSemantic(e)
             /\ ~HasContentClass(e)
             /\ ~(e.tag = "div" /\ ScoreGreater(CalculateContentScore(e),
                                                [num |-> 50, den |-> 1]))))
    => page.result = [threw |-> "ExtractionError", code |-> "NO_CONTENT"]

\* The character indices at which a word of the text starts
WordStarts(text) ==
  {i \in 0 .. (Len(text) - 1) : ~IsSpace(text[i + 1]) /\ (i = 0 \/ IsSpace(text[i]))}

\* C30: a word boundary event at the start of a word of the utterance being
\* spoken, arriving when the session's word index stands at the utterance's
\* base (the index at submission) or at an earlier word of the utterance,
\* sets the word index to the base plus the number of words of the utterance
\* text before the event's character index: no word is counted twice.
C30_BoundaryCountsOnce ==
  [][\A u \in DOMAIN utterances : \A charIndex \in 0 .. MaxBoundaryCharIndex :
       LET sid    == utterances[u].session
           text   == utterances[u].text
           base   == sessions[sid].totalWords - Cardinality(WordStarts(text))
           before == Cardinality({i \in WordStarts(text) : i < charIndex})
       IN  (/\ EngineBoundary(u, "word", charIndex)
            /\ IsSpoken(u)
            /\ charIndex \in WordStarts(text)
            /\ \/ sessions[sid].currentPosition \in base .. (base + before - 1)
               \/ sessions[sid].currentPosition = base /\ before = 0)
             => sessions'[sid].currentPosition = base + before]_vars

\* C31: setSpeed with a valid speed on the session that holds the engine
\* focus and is not paused, called while the engine is speaking and not
\* paused and no other call is in flight, cancels the utterance and leaves
\* its own restart
\* underway; the restart then submits the one utterance of the queue, with
\* the session's remaining text and the new rate.
C31_SetSpeedRestarts ==
  [][/\ \A sid \in activeSessions : \A speed \in ErrorSpeeds :
          (/\ calls = << >>
           /\ currentSessionId = sid /\ currentUtterance # Null
           /\ ~sessions[sid].isPaused
           /\ Speaking(World) /\ ~Paused(World)
           /\ SetSpeed(sid, speed))
            => /\ synth'.queue = << >>
               /\ SeqToSet(synth.queue) \subseteq synth'.cancelled
               /\ \E c \in DOMAIN calls' :
                    calls'[c].op = "setSpeed" /\ calls'[c].sid = sid
     /\ \A c \in DOMAIN calls :
          (/\ calls[c].sid \in activeSessions
           /\ SetSpeedAfterVoice(c))
            => /\ synth'.queue = << currentUtterance' >>
               /\ utterances'[currentUtterance'].text =
                    GetRemainingText(sessions[calls[c].sid])
               /\ utterances'[currentUtterance'].rate = sessions[calls[c].sid].speed]_vars

\* A step of one of the operations and callbacks that C32 and C33 name
\* besides the boundary and completion callbacks
ControlStep ==
  \/ \E sid \in DOMAIN sessions :
       \/ PauseSpeech(sid)
       \/ ResumeSpeech(sid)
       \/ \E speed \in LifeSpeeds : SetSpeed(sid, speed)
       \/ \E volume \in LifeVolumes : SetVolume(sid, volume)
  \/ \E c \in DOMAIN calls :
       \/ ResumeSpeechAfterVoice(c) \/ ResumeSpeechAfterSynthesis(c)
       \/ SetSpeedAfterVoice(c) \/ SetSpeedAfterSynthesis(c)
  \/ \E u \in DOMAIN utterances : EngineStart(u) \/ EngineError(u)
  \/ CleanupInactiveSessions

\* C32: pauseSpeech, resumeSpeech, setSpeed and setVolume in each of their
\* steps, the onstart and onerror callbacks and cleanupInactiveSessions
\* leave the word index of every session as it was.
C32_PositionFrame ==
  [][ControlStep =>
       \A sid \in DOMAIN sessions :
         (Alive(sessions, sid) /\ Alive(sessions', sid))
           => sessions'[sid].currentPosition = sessions[sid].currentPosition]_vars
C32_Witness ==
  \E u \in DOMAIN utterances :
    LET sid == utterances[u].session
    IN  /\ utterances[u].submittedBy = "setSpeed" /\ utterances[u].started
        /\ utterances[u].text = << "b" >>
        /\ Alive(sessions, sid)
        /\ sessions[sid].currentPosition = 1
        /\ sessions[sid].isPaused
        /\ sessions[sid].volume = 5

\* The session object sid is stamped with the time of the step
Stamped(sid) == Alive(sessions', sid) => sessions'[sid].lastActiveAt = now

\* C33: every successful pauseSpeech, resumeSpeech, setSpeed and setVolume
\* and every onstart, word boundary, onend and onerror callback sets the
\* session's lastActiveAt to the time of the step, and no step changes a
\* session without doing so; lastActiveAt never decreases and is never
\* earlier than createdAt; an operation that is rejected (unknown session,
\* value out of range, resume of a session that is not paused) leaves every
\* session as it was.
C33_ActivityStamped ==
  /\ [](\A sid \in DOMAIN sessions :
          Alive(sessions, sid) =>
            /\ sessions[sid].createdAt <= sessions[sid].lastActiveAt
            /\ sessions[sid].lastActiveAt <= now)
  /\ [][/\ \A sid \in DOMAIN sessions :
             (Alive(sessions, sid) /\ Alive(sessions', sid)) =>
               /\ sessions'[sid].lastActiveAt >= sessions[sid].lastActiveAt
               /\ sessions'[sid] # sessions[sid] => sessions'[sid].lastActiveAt = now
        /\ \A sid \in activeSessions :
             /\ PauseSpeech(sid) => Stamped(sid)
             /\ (/\ sessions[sid].isPaused /\ currentSessionId = sid /\ Paused(World)
                 /\ ResumeSpeech(sid)) => Stamped(sid)
             /\ \A speed \in LifeSpeeds :
                  (5 <= speed /\ speed <= 20 /\ SetSpeed(sid, speed)) => Stamped(sid)
             /\ \A volume \in LifeVolumes :
                  (0 <= volume /\ volume <= 10 /\ SetVolume(sid, volume)) => Stamped(sid)
        /\ \A c \in DOMAIN calls :
             (~calls[c].threw /\ ResumeSpeechAfterSynthesis(c)) => Stamped(calls[c].sid)
        /\ \A u \in DOMAIN utterances :
             (\/ EngineStart(u) \/ EngineEnd(u) \/ EngineError(u)
              \/ EngineBoundary(u, "word", LifeCharIndex))
               => Stamped(utterances[u].session)
        /\ \A sid \in 1 .. (Len(sessions) + 1) :
             /\ (/\ sid \notin activeSessions
                 /\ \/ PauseSpeech(sid) \/ ResumeSpeech(sid)
                    \/ \E speed \in LifeSpeeds : SetSpeed(sid, speed)
                    \/ \E volume \in LifeVolumes : SetVolume(sid, volume))
                  => UNCHANGED sessions
             /\ (/\ sid \in activeSessions
                 /\ \/ ~sessions[sid].isPaused /\ ResumeSpeech(sid)
                    \/ \E speed \in LifeSpeeds :
                         ~(5 <= speed /\ speed <= 20) /\ SetSpeed(sid, speed)
                    \/ \E volume \in LifeVolumes :
                         ~(0 <= volume /\ volume <= 10) /\ SetVolume(sid, volume))
                  => UNCHANGED sessions]_vars
C33_Witness ==
  \E sid \in activeSessions :
    /\ sessions[sid].isPaused /\ sessions[sid].speed = 15
    /\ sessions[sid].createdAt = 0
    /\ sessions[sid].lastActiveAt = now /\ now = 2

\* C34: the spans that splitIntoSentences returns are in increasing order
\* and do not overlap (a span starts at or after the end of the one before
\* it), lie within the text, have no empty text, and the text of each is the
\* input sliced from its start to its end and trimmed.
C34_SpansOrdered ==
  (page.attached /\ Has(page, "sentences") /\ page.split) =>
    \A k \in DOMAIN page.sentences :
      LET span == page.sentences[k]
      IN  /\ 0 <= span.start /\ span.start < span.end /\ span.end <= Len(page.text)
          /\ k > 1 => span.start >= page.sentences[k - 1].end
          /\ span.text # << >>
          /\ span.text = Trim(SubSeq(page.text, span.start + 1, span.end))
C34_Witness ==
  /\ page.attached /\ Has(page, "sentences") /\ page.split
  /\ Len(page.sentences) = 2
  /\ IsSpace(page.text[1]) /\ IsSpace(page.text[Len(page.text)])
  /\ page.sentences[2].end < Len(page.text)

\* C35: splitting the texts of a text's sentences, joined with single
\* spaces, yields the same sequence of sentence texts as splitting the text
\* itself, for every text of letters, spaces and sentence terminators.
C35_ResplitSame ==
  (page.attached /\ Has(page, "sentences") /\ page.resplit) =>
    SentenceTexts(page.again) = SentenceTexts(page.sentences)
C35_Witness ==
  /\ page.attached /\ Has(page, "sentences") /\ page.resplit
  /\ Len(page.again) = 3
  /\ JoinSpace(SentenceTexts(page.sentences)) # page.text
  /\ \E k \in DOMAIN page.again : page.again[k].start # page.sentences[k].start

\* C36: AudioSession.fromJSON(session.toJSON()) does not throw and yields a
\* session with the same sessionId, contentId, tabId, word index, totalWords,
\* isPlaying, isPaused, speed and volume.
C36_JSONRoundTrip ==
  (page.attached /\ Has(page, "session") /\ page.restored) =>
    /\ page.result.threw = "none"
    /\ \A field \in {"sessionId", "contentId", "tabId", "currentPosition", "totalWords",
                     "isPlaying", "isPaused", "speed", "volume"} :
         page.result.session[field] = page.session[field]

\* C37: whenever the engine focus is set it names a session that is in the
\* registry, and the focus and the current utterance are set together or
\* not at all.
C37_FocusRegistered ==
  /\ currentSessionId # Null => currentSessionId \in activeSessions
  /\ (currentSessionId = Null) <=> (currentUtterance = Null)

\* C38: the engine holds no utterance, spoken or waiting, of a session that
\* stopSpeech has taken out of the registry, and none is submitted for it
\* later, whatever was suspended or whoever held the focus when the stop ran.
C38_StoppedIsSilent ==
  \A u \in SeqToSet(synth.queue) : utterances[u].session \in activeSessions

\* C39: right after the stop command of the click-to-read path the page's
\* engine has no utterance, spoken or waiting.
C39_StopSilences ==
  (page.attached /\ Has(page, "listeners") /\ last.op = "sr-stop") => page.queue = << >>

\* C40: a click on article text starts exactly one reading when the handler
\* is active and none when it is not, however often the handler was switched
\* on and off before.
C40_OneReadingPerClick ==
  (page.attached /\ Has(page, "listeners") /\ last.op = "click") =>
    page.readings = IF page.isActive THEN 1 ELSE 0

====
